---- MODULE Spec2Model ----
(***************************************************************************)
(* OxaTrace: the renderer_pool scheduler (main.cpp), the adaptive sampler  *)
(* and the recursive shader (renderer.cpp), the shading policy, the image, *)
(* the colour channel and the scene.                                       *)
(*                                                                         *)
(* The specifications share the module's variables:                        *)
(*   SpecPool     renderer_pool: construction, run(), workers, finish()    *)
(*   SpecPoolFair SpecPool with a fair scheduler                           *)
(*   SpecSample   one top-level sample() call on a pixel                   *)
(*   SpecShade    one do_shade() recursion chain with its colours          *)
(*   SpecPolicy   the setters of shading_policy                            *)
(*   SpecImage    basic_image: construction and pixel_at                   *)
(*   SpecScene    scene::intersect_solid                                   *)
(*   SpecChannel  channel: construction, assignment, arithmetic            *)
(*   SpecNormal   scene::intersection::normal() within one do_shade call   *)
(*   SpecRecur    the depth of the recursion of a shade() call             *)
(*   SpecThread   the thread-local sample grid across sample() calls       *)
(* Each leaves the variables of the others at their idle values.           *)
(***************************************************************************)
EXTENDS Integers, Sequences, FiniteSets, TLC

VARIABLES
  \* ---- renderer_pool (main.cpp:97-214)
  pool,               \* "new" | "live" | "out_of_range" | "destroyed"
  num_threads_,       \* renderer_pool::num_threads_
  width, height,      \* destination_.width(), destination_.height()
  current_job_index_, \* std::atomic<unsigned>
  threads_,           \* std::vector<std::thread>: ids of the spawned threads
  mainpc,             \* the calling thread: "idle" | "run" | "finish"
  run_i,              \* loop variable of run()
  join_i,             \* position of finish() in threads_
  ran,                \* run() has been called
  in_dtor,            \* the running finish() was called by ~renderer_pool
  finish_calls,       \* number of explicit finish() calls made
  joined,             \* a finish() that began after run() has returned
  wpc,                \* per worker: "none" | "get_job" | "fetch_add" | "loop"
                      \*             | "exited" | "threw"
  wbegin,             \* per worker: local `begin`
  windex,             \* per worker: local `index` of the for loop
  writes,             \* per pixel index: number of writes to destination_
  handed,             \* history: the jobs get_job has returned, in order
  prng,               \* per worker: the local `prng` of worker(): [seed, pos]
  image,              \* per pixel index: the colour stored in destination_
  \* ---- adaptive sampler (renderer.cpp:115-424)
  s_pc,               \* the sample() call: "idle" | "running" | "done"
  supersampling,      \* policy.supersampling
  jitter,             \* policy.jitter
  landing,            \* how a sample point is bucketed: "free" | "low" | "high"
  scene_ex, scene_ey, \* the scene seen through the pixel: cells with
  scene_in, scene_out,\*   x < scene_ex, y < scene_ey shade to scene_in
  samples_,           \* pixel_samples::samples_, by cell <<x, y>>
  side_,              \* pixel_samples::side_
  stack,              \* the active subpixel_sample calls, innermost last
  rays,               \* number of sample_one calls (camera rays cast)
  casts,              \* per cell: number of pixel_samples::add calls
  accepted,           \* regions whose corner samples were accepted
  asserts_ok,         \* no assert() of the sampler has failed
  sample_result,      \* value returned by sample(): [sum, den]
  \* ---- shader (renderer.cpp:13-113)
  sh_pc,              \* "idle" | "call" | "frame" | "return" | "done" | "threw"
  policy,             \* shading_policy: background, max_depth, min_importance
  num_lights,         \* number of lights in scene.lights()
  sh_entry,           \* the outermost call: [via, depth, importance]
  sh_call,            \* arguments of the do_shade call being entered
  sh_stack,           \* the do_shade calls that hit a solid, innermost last
  sh_ret,             \* colour returned by the call that just returned
  sh_err,             \* exception in flight: "none" | "logic_error"
  sh_queries,         \* number of scene.intersect_solid calls made
  sh_chain,           \* history: <<depth, importance>> of every do_shade call
  sh_light,           \* history: the light processed last
  sh_last,            \* history: the do_shade activation that returned last
  \* ---- configuration of the shading policy (renderer.hpp:38-56, shader.cpp:8-14)
  pol_pc,             \* "idle" | "setup" | "rendering"
  pol_calls,          \* number of modifier calls made
  pol_set,            \* history: the modifier call made last
  img_pc,             \* basic_image: "idle" | "live" | "logic_error"
  img_w,              \* width given to the constructor
  img_h,              \* height given to the constructor
  img_access,         \* history: the pixel_at call made last
  sc_pc,              \* intersect_solid: "idle" | "loop" | "done"
  sc_solids,          \* per solid, in the order added: solid.intersect(ray)
  sc_iter,            \* the loop's position in the solids
  sc_min_param,       \* local min_param
  sc_result,          \* local result: [hit, param, solid]
  ch_pc,              \* channel: "idle" | "new" | "live"
  ch_value,           \* channel::value_
  ch_ops,             \* number of operations applied to the channel
  ch_last,            \* history: the operation applied last
  nm_pc,              \* do_shade's use of its intersection: "idle" | "lights" | "done"
  nm_i,               \* the intersection i: [shape, point, origin_z, normal_]
  nm_lights,          \* number of lights in scene.lights()
  nm_li,              \* the light loop's position
  nm_evals,           \* history: evaluations of solid_.normal_at
  nm_calls,           \* history: calls of i->normal()
  nm_rets,            \* history: the values i->normal() returned
  rc_pc,              \* where the shade call is: idle, call, return, done
  rc_call,            \* depth and importance of the do_shade call being entered
  rc_chain,           \* the do_shade calls so far, with what each of them did
  rc_pending,         \* do_shade activations waiting for their recursive call
  rc_primary,         \* intersect_solid queries for primary and reflected rays
  tl_pc,              \* per thread: idle, loop (in subpixel_sample), sum
  tl_samples,         \* per thread: static thread_local pixel_samples samples
  tl_call,            \* per thread: the pixel, the supersampling and the ordinal of its sample() call
  tl_k,               \* per thread: the corner subpixel_sample visits next
  tl_result,          \* per thread: what the last returned sample() call summed
  tl_asserts          \* no assertion of sample() or subpixel_sample has failed

poolVars == <<pool, num_threads_, width, height, current_job_index_, threads_,
              mainpc, run_i, join_i, ran, in_dtor, finish_calls, joined,
              wpc, wbegin, windex, writes, handed, prng, image>>

sampleVars == <<s_pc, supersampling, jitter, landing, scene_ex, scene_ey,
                scene_in, scene_out, samples_, side_, stack, rays, casts,
                accepted, asserts_ok, sample_result>>

shadeVars == <<sh_pc, policy, num_lights, sh_entry, sh_call, sh_stack,
               sh_ret, sh_err, sh_queries, sh_chain, sh_light, sh_last>>

polVars == <<pol_pc, pol_calls, pol_set>>

imgVars == <<img_pc, img_w, img_h, img_access>>

sceneVars == <<sc_pc, sc_solids, sc_iter, sc_min_param, sc_result>>

chanVars == <<ch_pc, ch_value, ch_ops, ch_last>>

normVars == <<nm_pc, nm_i, nm_lights, nm_li, nm_evals, nm_calls, nm_rets>>

recVars == <<rc_pc, rc_call, rc_chain, rc_pending, rc_primary>>

thrVars == <<tl_pc, tl_samples, tl_call, tl_k, tl_result, tl_asserts>>

vars == <<poolVars, sampleVars, shadeVars, polVars, imgVars, sceneVars, chanVars, normVars, recVars, thrVars>>

-----------------------------------------------------------------------------
(* Bounds of the model *)

\* Largest thread count given to the constructor.
MaxThreads == 2
\* Largest image width and height.
MaxWidth == 2
MaxHeight == 3
\* Largest policy.max_depth and largest number of lights in the scene.
MaxDepth == 1
MaxLights == 2
\* Number of explicit finish() calls the caller makes at most.
MaxFinishCalls == 2
\* largest --supersampling value given on the command line
MaxSupersampling == 8
\* solids added to a scene
MaxSolids == 3
\* largest ordinary ray parameter of an intersection
MaxParam == 2
\* operations applied to one channel after its construction
MaxSampleCalls == 2
MaxChannelOps == 2
\* modifier calls made on one shading policy
MaxPolicyCalls == 3
\* renderer_pool::job_size is 1024 (main.cpp:149).  The scheduler uses it only
\* as the stride of the job starts and the length of a job's pixel loop, so
\* the model runs it with a small stride to keep every interleaving of the
\* single pixel writes enumerable.
job_size == 2

Workers == 1 .. MaxThreads

-----------------------------------------------------------------------------
(* Integer widths *)

\* current_job_index_, `done` and `total_size` are `unsigned` (32 bits),
\* hdr_image::index is std::size_t.  For an image of fewer than 2^32 - 1024 * T
\* pixels (T threads) no product or sum below leaves the range of `unsigned`;
\* the images of the model are far smaller, and the arithmetic is written
\* without the reduction modulo 2^32.

-----------------------------------------------------------------------------
(* The state of a component that is not running *)

\* A generator that has not been constructed, and a pixel of the destination
\* image that has not been assigned.
NoPrng == [seed |-> 0, pos |-> 0]
NoColor == [pixel |-> -1, draws |-> << >>]

\* No renderer_pool has been constructed.
PoolIdle ==
  /\ pool = "new"
  /\ num_threads_ = 0
  /\ width = 1
  /\ height = 1
  /\ current_job_index_ = 0
  /\ threads_ = << >>
  /\ mainpc = "idle"
  /\ run_i = 0
  /\ join_i = 0
  /\ ran = FALSE
  /\ in_dtor = FALSE
  /\ finish_calls = 0
  /\ joined = FALSE
  /\ wpc = [t \in Workers |-> "none"]
  /\ wbegin = [t \in Workers |-> 0]
  /\ windex = [t \in Workers |-> 0]
  /\ writes = [p \in {0} |-> 0]
  /\ handed = << >>
  /\ prng = [t \in Workers |-> NoPrng]
  /\ image = [p \in {0} |-> NoColor]

\* Frame conditions: the components that are not running do not change.
PoolFrame ==
  UNCHANGED <<sampleVars, shadeVars, polVars, imgVars, sceneVars, chanVars,
              normVars, recVars, thrVars>>
SampleFrame ==
  UNCHANGED <<poolVars, shadeVars, polVars, imgVars, sceneVars, chanVars,
              normVars, recVars, thrVars>>
ShadeFrame ==
  UNCHANGED <<poolVars, sampleVars, polVars, imgVars, sceneVars, chanVars,
              normVars, recVars, thrVars>>
PolicyFrame ==
  UNCHANGED <<poolVars, sampleVars, sh_pc, num_lights, sh_entry, sh_call,
              sh_stack, sh_ret, sh_err, sh_queries, sh_chain, sh_light,
              sh_last, imgVars, sceneVars, chanVars, normVars, recVars,
              thrVars>>
ImageFrame ==
  UNCHANGED <<poolVars, sampleVars, shadeVars, polVars, sceneVars, chanVars,
              normVars, recVars, thrVars>>
SceneFrame ==
  UNCHANGED <<poolVars, sampleVars, shadeVars, polVars, imgVars, chanVars,
              normVars, recVars, thrVars>>
ChannelFrame ==
  UNCHANGED <<poolVars, sampleVars, shadeVars, polVars, imgVars, sceneVars,
              normVars, recVars, thrVars>>
NormalFrame ==
  UNCHANGED <<poolVars, sampleVars, shadeVars, polVars, imgVars, sceneVars,
              chanVars, recVars, thrVars>>
RecurFrame ==
  UNCHANGED <<poolVars, sampleVars, sh_pc, num_lights, sh_entry, sh_call,
              sh_stack, sh_ret, sh_err, sh_queries, sh_chain, sh_light,
              sh_last, polVars, imgVars, sceneVars, chanVars, normVars,
              thrVars>>
ThreadFrame ==
  UNCHANGED <<poolVars, sampleVars, shadeVars, polVars, imgVars, sceneVars,
              chanVars, normVars, recVars>>

-----------------------------------------------------------------------------
(* Colours *)

\* hdr_color: three channels (r, g, b).  The model writes a channel as an
\* integer number of tenths.
ColorAdd(a, b) == [i \in 1 .. 3 |-> a[i] + b[i]]
ColorScale(a, k) == [i \in 1 .. 3 |-> a[i] * k]
ColorZero == <<0, 0, 0>>

\* distance(min, max) > max_distance, both sides squared
\* (max_distance = 0.2, i.e. 2 tenths)
max_distance == 2
DistanceSq(a, b) ==
  (a[1] - b[1]) * (a[1] - b[1]) + (a[2] - b[2]) * (a[2] - b[2])
    + (a[3] - b[3]) * (a[3] - b[3])
C24_Mut_ExceedsMaxDistance(a, b) == DistanceSq(a, b) > 0
ExceedsMaxDistance(a, b) == DistanceSq(a, b) > max_distance * max_distance

\* std::numeric_limits<hdr_color::channel>::max(), an upper bound of every
\* channel value, and ::min(), the smallest positive double, which is 0 at
\* the resolution of the model
max_channel == 1000000
min_channel == 0

-----------------------------------------------------------------------------
(* Rational numbers <<numerator, denominator>> for the doubles of the shader *)

RECURSIVE GCD(_, _)
GCD(a, b) == IF b = 0 THEN a ELSE GCD(b, a % b)
Abs(n) == IF n < 0 THEN -n ELSE n
Rat(n, d) ==
  LET g == GCD(Abs(n), d) IN <<n \div g, d \div g>>
RAdd(a, b) == Rat(a[1] * b[2] + b[1] * a[2], a[2] * b[2])
RMul(a, b) == Rat(a[1] * b[1], a[2] * b[2])
RLt(a, b) == a[1] * b[2] < b[1] * a[2]
RLe(a, b) == a[1] * b[2] <= b[1] * a[2]
RECURSIVE RPow(_, _)
RPow(a, n) == IF n = 0 THEN <<1, 1>> ELSE RMul(a, RPow(a, n - 1))
R0 == <<0, 1>>
R1 == <<1, 1>>
Half == <<1, 2>>

\* hdr_color with rational channels: operator +, operator * (ChannelT)
hdr_add(a, b) == [i \in 1 .. 3 |-> RAdd(a[i], b[i])]
hdr_scale(a, k) == [i \in 1 .. 3 |-> RMul(a[i], k)]
Hdr(r, g, b) == <<r, g, b>>

-----------------------------------------------------------------------------
(* Materials, lights and the shading policy *)

\* material::material: the range checks of the constructor
C8_Mut_material_ok(m) ==
  /\ ~(RLt(m.diffuse, R0) \/ RLt(R1, m.diffuse))
  /\ ~(RLt(m.specular, R0) \/ RLt(R1, m.specular))
material_ok(m) ==
  /\ ~(RLt(m.diffuse, R0) \/ RLt(R1, m.diffuse))
  /\ ~(RLt(m.specular, R0) \/ RLt(R1, m.specular))
  /\ ~(RLt(m.reflectance, R0) \/ RLt(R1, m.reflectance))

Material(a, d, s, e, r) ==
  [ambient |-> a, diffuse |-> d, specular |-> s, specular_exponent |-> e,
   reflectance |-> r]

\* Constructor arguments tried; only those the constructor accepts become
\* materials of a scene.
MaterialArgs ==
  { Material(Hdr(Half, R0, R0), R1, R0, 1, R0),
    Material(Hdr(R0, Half, R0), Half, Half, 2, Half),
    Material(Hdr(R0, R0, R0), R0, R1, 2, R1),
    Material(Hdr(R0, R0, R0), R0, R1, 2, <<3, 2>>),
    Material(Hdr(R0, R0, R0), R0, R1, 2, <<-1, 2>>),
    Material(Hdr(R0, R0, R0), <<2, 1>>, R1, 2, Half),
    Material(Hdr(R0, R0, R0), Half, <<-1, 1>>, 2, Half) }
Materials == {m \in MaterialArgs : material_ok(m)}

\* What a textured solid's texture returns, the colour of every light, and
\* the background of the policy.
TextureColor == Hdr(<<1, 4>>, <<1, 4>>, <<1, 4>>)
LightColor == Hdr(R1, R1, Half)
Background == Hdr(R0, <<1, 4>>, Half)

\* What a shadow ray may find: the squared distance from the hit position to
\* the obstacle (0: no obstacle) and to the light.  No obstacle, an obstacle
\* nearer than the light, one as far as the light, one beyond the light.
ShadowRays ==
  { [obstacle_d2 |-> 0, light_d2 |-> 4], [obstacle_d2 |-> 1, light_d2 |-> 4],
    [obstacle_d2 |-> 4, light_d2 |-> 4], [obstacle_d2 |-> 4, light_d2 |-> 1] }
\* cos_angle(normal, light_dir)
Cosines == {<<-1, 1>>, R0, Half}
\* importance arguments tried on a direct do_shade call
Importances == {<<-1, 2>>, R0, Half, R1, <<3, 2>>}
MinImportances == {R0, Half}

\* sh_light before any light has been processed
NoLight ==
  [kind |-> "none", obstacle_d2 |-> 0, light_d2 |-> 0, cos_alpha |-> R0,
   material |-> Material(Hdr(R0, R0, R0), R0, R0, 0, R0),
   before |-> Hdr(R0, R0, R0), after |-> Hdr(R0, R0, R0)]

\* sh_last before any do_shade call that hit a solid has returned
NoFrame ==
  [depth |-> 0, importance |-> R0,
   material |-> Material(Hdr(R0, R0, R0), R0, R0, 0, R0),
   result |-> Hdr(R0, R0, R0), li |-> 0, reflection |-> Hdr(R0, R0, R0)]

\* pol_set before any modifier has been called
NoSet == [op |-> "none", arg |-> R0, err |-> "none", before |-> << >>]

\* No shading policy is being configured.
PolicyIdle ==
  /\ pol_pc = "idle"
  /\ pol_calls = 0
  /\ pol_set = NoSet

\* img_access before any pixel_at call
NoAccess == [x |-> 0, y |-> 0, outcome |-> "none", index |-> 0]

\* No image is being constructed or accessed.
ImageIdle ==
  /\ img_pc = "idle"
  /\ img_w = 0 /\ img_h = 0
  /\ img_access = NoAccess

\* boost::optional<intersection> result, default constructed
NoIntersection == [hit |-> FALSE, param |-> 0, solid |-> 0]

\* No intersect_solid call is being made.
SceneIdle ==
  /\ sc_pc = "idle"
  /\ sc_solids = << >>
  /\ sc_iter = 0
  /\ sc_min_param = 0
  /\ sc_result = NoIntersection

\* ch_last before any operation
NoOp == [op |-> "none", before |-> <<0, 1>>, arg |-> <<0, 1>>]

\* No channel is being operated on.
ChannelIdle ==
  /\ ch_pc = "idle"
  /\ ch_value = <<0, 1>>
  /\ ch_ops = 0
  /\ ch_last = NoOp

\* boost::optional<unit<vector3>> normal_, empty
NoNormal == <<0, 0, 0>>

\* No intersection is in use.
NormalIdle ==
  /\ nm_pc = "idle"
  /\ nm_i = [shape |-> "none", point |-> <<0, 0, 0>>, origin_z |-> 0,
             normal_ |-> NoNormal]
  /\ nm_lights = 0
  /\ nm_li = 0
  /\ nm_evals = 0
  /\ nm_calls = 0
  /\ nm_rets = {}

\* No shade call is being followed.
RecurIdle ==
  /\ rc_pc = "idle"
  /\ rc_call = [depth |-> 0, importance |-> R1]
  /\ rc_chain = << >>
  /\ rc_pending = 0
  /\ rc_primary = 0

\* pixel_samples::pixel_samples(): an empty grid of side 0, and a grid cell as
\* std::vector::resize creates it.
NoPixel == -1
NoRay == [thread |-> 0, call |-> 0, pixel |-> NoPixel, cell |-> 0]
DefaultSample == [value |-> NoRay, weight |-> 0]
DefaultGrid == [samples_ |-> << >>, region_ |-> NoPixel, side_ |-> 0]
NoResult == [call |-> 0, pixel |-> NoPixel, terms |-> { }, size |-> 0]

\* No thread has called sample().
ThreadIdle ==
  /\ tl_pc = [t \in Workers |-> "idle"]
  /\ tl_samples = [t \in Workers |-> DefaultGrid]
  /\ tl_call = [t \in Workers |-> [pixel |-> NoPixel, supersampling |-> 1,
                                   n |-> 0, previous |-> 0]]
  /\ tl_k = [t \in Workers |-> 1]
  /\ tl_result = [t \in Workers |-> NoResult]
  /\ tl_asserts = TRUE

\* thread_local pixel_samples samples, default constructed, no call running
SampleIdle ==
  /\ s_pc = "idle"
  /\ supersampling = 1
  /\ jitter = FALSE
  /\ landing = "free"
  /\ scene_ex = 0 /\ scene_ey = 0
  /\ scene_in = ColorZero /\ scene_out = ColorZero
  /\ samples_ = << >>
  /\ side_ = 0
  /\ stack = << >>
  /\ rays = 0
  /\ casts = << >>
  /\ accepted = {}
  /\ asserts_ok = TRUE
  /\ sample_result = [sum |-> ColorZero, den |-> 1]

\* No shading call is running.
ShadeIdle ==
  /\ sh_pc = "idle"
  /\ policy = [background |-> Background, max_depth |-> 0,
               min_importance |-> R0]
  /\ num_lights = 0
  /\ sh_entry = [via |-> "none", depth |-> 0, importance |-> R1]
  /\ sh_call = [depth |-> 0, importance |-> R1]
  /\ sh_stack = << >>
  /\ sh_ret = Hdr(R0, R0, R0)
  /\ sh_err = "none"
  /\ sh_queries = 0
  /\ sh_chain = << >>
  /\ sh_light = NoLight
  /\ sh_last = NoFrame

-----------------------------------------------------------------------------
(* Adaptive sampler *)

\* is_power2(n): n is a power of two, 1 included
is_power2(n) == n >= 1 /\ \E k \in 0 .. n : n = 2 ^ k

\* main: if (!is_power2(supersampling)) throw std::runtime_error{...};
C20_Mut_main_accepts(n) == TRUE
main_accepts(n) == is_power2(n)

\* Up to this grid side every bucketing of every sample point is explored;
\* above it the points are bucketed uniformly low or uniformly high.
MaxFreeSide == 4

\* The colours an object and its surroundings shade to.
SceneColors == {<<3, 0, 0>>, <<3, 1, 1>>, <<0, 3, 0>>}

Cells(S) == (0 .. S - 1) \X (0 .. S - 1)

\* shade(scene, cam.make_ray(point), policy, prng) for a point in cell <<x, y>>
ShadeAt(x, y) ==
  IF x < scene_ex /\ y < scene_ey THEN scene_in ELSE scene_out

\* The cells of a subpixel_ref (offset_x_, offset_y_, side_)
RegionCells(ox, oy, s) == (ox .. ox + s - 1) \X (oy .. oy + s - 1)

\* subpixel_ref::get_any: the first cell of weight > 0, x outermost; a set
\* of at most one cell stands for the boost::optional
C5_Mut_get_any(ox, oy, s) ==
  LET filled == {c \in (ox .. s - 1) \X (oy .. s - 1) :
                   samples_[c].weight > 0}
  IN  IF filled = {} THEN {}
      ELSE {CHOOSE c \in filled :
              \A d \in filled :
                c[1] < d[1] \/ (c[1] = d[1] /\ c[2] <= d[2])}
get_any(ox, oy, s) ==
  LET filled == {c \in RegionCells(ox, oy, s) : samples_[c].weight > 0}
  IN  IF filled = {} THEN {}
      ELSE {CHOOSE c \in filled :
              \A d \in filled :
                c[1] < d[1] \/ (c[1] = d[1] /\ c[2] <= d[2])}

\* subpixel_ref::total_weight
RECURSIVE SumWeights(_, _)
SumWeights(f, cells) ==
  IF cells = {} THEN 0
  ELSE LET c == CHOOSE c \in cells : TRUE
       IN  f[c].weight + SumWeights(f, cells \ {c})
total_weight(f, ox, oy, s) == SumWeights(f, RegionCells(ox, oy, s))

\* subpixel_ref::corner: offset of corner c (0 .. 3) of a region of side s
corner_x(ox, s, c) == ox + (s \div 2) * (c % 2)
C4_Mut_corner_y(oy, s, c) == oy + (s \div 2) * (c % 2)
corner_y(oy, s, c) == oy + (s \div 2) * (c \div 2)

\* subpixel_sample: weight and weight_4
C28_Mut_region_weight(s) == s
region_weight(s) == s * s
C3_Mut_weight_4(s) == (s * s) \div 2
weight_4(s) == (s * s) \div 4

\* sample_one and pixel_samples::add: the grid coordinate, along one axis,
\* that the sample point of a region (offset o, side s) is bucketed to.
\* Without jitter the point is the centre o + s/2 of the region, which for
\* s > 1 lies on a cell boundary: the double arithmetic of region() and add()
\* puts it in either neighbouring cell.  With jitter the point is uniform in
\* [o + s/4, o + 3s/4).
LandingSet(o, s) ==
  IF s = 1 THEN {o}
  ELSE IF jitter THEN (o + s \div 4) .. (o + (3 * s + 3) \div 4 - 1)
  ELSE {o + s \div 2 - 1, o + s \div 2}

Landing(o, s) ==
  LET set == LandingSet(o, s)
  IN  CASE landing = "free" -> set
        [] landing = "low"  -> {CHOOSE m \in set : \A n \in set : m <= n}
        [] landing = "high" -> {CHOOSE m \in set : \A n \in set : m >= n}

\* pixel_samples::add: samples_[y * side_ + x] = sample
add(f, c, sample) == [f EXCEPT ![c] = sample]

\* Obtain-or-create the one sample of region (ox, oy, s) and give it weight w:
\* get_any, then sample_one landing in cell c, or the weight assignment.
\* The result is <<samples_', the cell of the sample, a ray was cast>>.
obtain(ox, oy, s, w, c) ==
  LET found == get_any(ox, oy, s)
  IN  IF found = {}
      THEN <<add(samples_, c, [value |-> ShadeAt(c[1], c[2]), weight |-> w]),
             c, TRUE>>
      ELSE LET e == CHOOSE e \in found : TRUE
           IN  <<[samples_ EXCEPT ![e].weight = w], e, FALSE>>

Frame(x, y, s) ==
  [x |-> x, y |-> y, side |-> s, pc |-> "corners", ci |-> 0,
   min |-> <<max_channel, max_channel, max_channel>>,
   max |-> <<min_channel, min_channel, min_channel>>]

Top == stack[Len(stack)]
Pop == SubSeq(stack, 1, Len(stack) - 1)
ReplaceTop(f) == [stack EXCEPT ![Len(stack)] = f]

InitSample ==
  /\ PoolIdle
  /\ ShadeIdle
  /\ PolicyIdle
  /\ ImageIdle
  /\ SceneIdle
  /\ ChannelIdle
  /\ NormalIdle
  /\ RecurIdle
  /\ ThreadIdle
  /\ s_pc = "idle"
  /\ supersampling \in 0 .. MaxSupersampling
  /\ jitter \in BOOLEAN
  /\ landing \in IF supersampling <= MaxFreeSide
                 THEN {"free"} ELSE {"low", "high"}
  /\ scene_ex \in 0 .. supersampling
  /\ scene_ey \in 0 .. supersampling
  /\ scene_in = <<3, 0, 0>>
  /\ scene_out \in SceneColors
  /\ samples_ = << >>
  /\ side_ = 0
  /\ stack = << >>
  /\ rays = 0
  /\ casts = << >>
  /\ accepted = {}
  /\ asserts_ok = TRUE
  /\ sample_result = [sum |-> ColorZero, den |-> 1]

\* main: the supersampling value passes the test; the policy is filled in
\* and the pool constructed and run
MainSupersamplingOk ==
  /\ SampleFrame
  /\ s_pc = "idle"
  /\ main_accepts(supersampling)
  /\ s_pc' = "checked"
  /\ UNCHANGED <<supersampling, jitter, landing, scene_ex, scene_ey,
                 scene_in, scene_out, samples_, side_, stack, rays, casts,
                 accepted, asserts_ok, sample_result>>

\* main: throw std::runtime_error{"Supersampling value not a power of 2"}
MainSupersamplingThrow ==
  /\ SampleFrame
  /\ s_pc = "idle"
  /\ ~main_accepts(supersampling)
  /\ s_pc' = "rejected"
  /\ UNCHANGED <<supersampling, jitter, landing, scene_ex, scene_ey,
                 scene_in, scene_out, samples_, side_, stack, rays, casts,
                 accepted, asserts_ok, sample_result>>

\* sample(): samples.reset(pixel, policy.supersampling), then the call
\* subpixel_sample(scene, cam, policy, {samples}, samples, prng)
SampleCall ==
  /\ SampleFrame
  /\ s_pc = "checked"
  /\ s_pc' = "running"
  /\ samples_' = [c \in Cells(supersampling) |->
                    [value |-> ColorZero, weight |-> 0]]
  /\ side_' = supersampling
  /\ casts' = [c \in Cells(supersampling) |-> 0]
  /\ stack' = <<Frame(0, 0, supersampling)>>
  /\ UNCHANGED <<supersampling, jitter, landing, scene_ex, scene_ey,
                 scene_in, scene_out, rays, accepted, asserts_ok,
                 sample_result>>

\* subpixel_sample, pixel.side() == 1
SubpixelLeaf ==
  /\ SampleFrame
  /\ s_pc = "running" /\ stack # << >>
  /\ Top.side = 1
  /\ \E cx \in Landing(Top.x, 1), cy \in Landing(Top.y, 1) :
       LET r == obtain(Top.x, Top.y, 1, region_weight(1), <<cx, cy>>)
       IN  /\ samples_' = r[1]
           /\ rays' = IF r[3] THEN rays + 1 ELSE rays
           /\ casts' = IF r[3] THEN [casts EXCEPT ![r[2]] = @ + 1] ELSE casts
           /\ asserts_ok' =
                (/\ asserts_ok
                 /\ r[3] => samples_[r[2]].weight = 0
                 /\ total_weight(r[1], Top.x, Top.y, 1) = region_weight(1))
  /\ stack' = Pop
  /\ UNCHANGED <<s_pc, supersampling, jitter, landing, scene_ex, scene_ey,
                 scene_in, scene_out, side_, accepted, sample_result>>

\* subpixel_sample, pixel.side() > 1: one iteration of the loop over the
\* four corners
SubpixelCorner ==
  /\ SampleFrame
  /\ s_pc = "running" /\ stack # << >>
  /\ Top.side > 1 /\ Top.pc = "corners" /\ Top.ci < 4
  /\ LET s  == Top.side \div 2
         ox == corner_x(Top.x, Top.side, Top.ci)
         oy == corner_y(Top.y, Top.side, Top.ci)
     IN  \E cx \in Landing(ox, s), cy \in Landing(oy, s) :
           LET r == obtain(ox, oy, s, weight_4(Top.side), <<cx, cy>>)
               v == r[1][r[2]].value
           IN  /\ samples_' = r[1]
               /\ rays' = IF r[3] THEN rays + 1 ELSE rays
               /\ casts' = IF r[3] THEN [casts EXCEPT ![r[2]] = @ + 1]
                           ELSE casts
               /\ asserts_ok' =
                    (/\ asserts_ok
                     /\ r[3] => samples_[r[2]].weight = 0
                     /\ \E c \in RegionCells(ox, oy, s) : r[1][c].weight > 0)
               /\ stack' = ReplaceTop(
                    [Top EXCEPT
                       !.ci = @ + 1,
                       !.max = [i \in 1 .. 3 |->
                                  IF v[i] > @[i] THEN v[i] ELSE @[i]],
                       !.min = [i \in 1 .. 3 |->
                                  IF v[i] < @[i] THEN v[i] ELSE @[i]]])
  /\ UNCHANGED <<s_pc, supersampling, jitter, landing, scene_ex, scene_ey,
                 scene_in, scene_out, side_, accepted, sample_result>>

\* subpixel_sample: after the corner loop, dist > max_distance decides
\* between recursing into the four corners and returning
SubpixelDecide ==
  /\ SampleFrame
  /\ s_pc = "running" /\ stack # << >>
  /\ Top.side > 1 /\ Top.pc = "corners" /\ Top.ci = 4
  /\ asserts_ok' =
       (/\ asserts_ok
        /\ total_weight(samples_, Top.x, Top.y, Top.side)
             = region_weight(Top.side))
  /\ IF ExceedsMaxDistance(Top.min, Top.max)
     THEN /\ stack' = ReplaceTop([Top EXCEPT !.pc = "recurse", !.ci = 0])
          /\ UNCHANGED accepted
     ELSE /\ stack' = Pop
          /\ accepted' = accepted \cup
               {[x |-> Top.x, y |-> Top.y, side |-> Top.side]}
  /\ UNCHANGED <<s_pc, supersampling, jitter, landing, scene_ex, scene_ey,
                 scene_in, scene_out, samples_, side_, rays, casts,
                 sample_result>>

\* subpixel_sample: the recursive call on the next corner
SubpixelRecurse ==
  /\ SampleFrame
  /\ s_pc = "running" /\ stack # << >>
  /\ Top.side > 1 /\ Top.pc = "recurse" /\ Top.ci < 4
  /\ stack' = Append(ReplaceTop([Top EXCEPT !.ci = @ + 1]),
                     Frame(corner_x(Top.x, Top.side, Top.ci),
                           corner_y(Top.y, Top.side, Top.ci),
                           Top.side \div 2))
  /\ UNCHANGED <<s_pc, supersampling, jitter, landing, scene_ex, scene_ey,
                 scene_in, scene_out, samples_, side_, rays, casts,
                 accepted, asserts_ok, sample_result>>

\* subpixel_sample: return after the four recursive calls
SubpixelReturn ==
  /\ SampleFrame
  /\ s_pc = "running" /\ stack # << >>
  /\ Top.side > 1 /\ Top.pc = "recurse" /\ Top.ci = 4
  /\ stack' = Pop
  /\ UNCHANGED <<s_pc, supersampling, jitter, landing, scene_ex, scene_ey,
                 scene_in, scene_out, samples_, side_, rays, casts,
                 accepted, asserts_ok, sample_result>>

\* sample(): the assertion on the accumulated weights, the weighted sum and
\* the division by samples.size()
RECURSIVE SumValues(_, _)
SumValues(f, cells) ==
  IF cells = {} THEN ColorZero
  ELSE LET c == CHOOSE c \in cells : TRUE
       IN  ColorAdd(ColorScale(f[c].value, f[c].weight),
                    SumValues(f, cells \ {c}))

SampleReturn ==
  /\ SampleFrame
  /\ s_pc = "running" /\ stack = << >>
  /\ s_pc' = "done"
  /\ asserts_ok' =
       (/\ asserts_ok
        /\ SumWeights(samples_, DOMAIN samples_) = side_ * side_)
  /\ sample_result' = [sum |-> SumValues(samples_, DOMAIN samples_),
                       den |-> side_ * side_]
  /\ UNCHANGED <<supersampling, jitter, landing, scene_ex, scene_ey,
                 scene_in, scene_out, samples_, side_, stack, rays, casts,
                 accepted>>

NextSample ==
  \/ MainSupersamplingOk
  \/ MainSupersamplingThrow
  \/ SampleCall
  \/ SubpixelLeaf
  \/ SubpixelCorner
  \/ SubpixelDecide
  \/ SubpixelRecurse
  \/ SubpixelReturn
  \/ SampleReturn

SpecSample == InitSample /\ [][NextSample]_vars

-----------------------------------------------------------------------------
(* Claims about the adaptive sampler *)

GridWeight == SumWeights(samples_, DOMAIN samples_)
EmptyCells == {c \in DOMAIN samples_ : samples_[c].weight = 0}

\* C3: weight conservation.  When the top-level sample() call has completed
\* on a grid of side S, the weights of the S*S cells add up to exactly S*S.
C3_WeightConservation ==
  s_pc = "done" =>
    /\ side_ = supersampling
    /\ DOMAIN samples_ = Cells(supersampling)
    /\ GridWeight = supersampling * supersampling

\* Reached: a call on the grid of side 8 has completed in which a region was
\* refined, a quadrant was accepted on its corner samples, and a sample taken
\* for a larger region ended with the weight of a single cell.
C3_Witness ==
  /\ s_pc = "done" /\ supersampling = 8
  /\ \E r \in accepted : r.side = 4
  /\ \E r \in accepted : r.side = 2
  /\ \E c \in DOMAIN samples_ : samples_[c].weight = 1

\* C4 as stated: when the top-level sample() call has completed, every cell
\* of the grid has weight > 0.
C4_EveryCellFilled ==
  s_pc = "done" => EmptyCells = {}

\* C4 amended: when the top-level sample() call has completed, a cell has
\* weight 0 only inside a region of side > 2 that was accepted on its corner
\* samples; each quadrant of an accepted region holds exactly one cell of
\* weight > 0, so that on a grid of side <= 2, or when every region of side > 2
\* was refined, every cell has weight > 0.
C4_FilledUnlessAccepted ==
  s_pc = "done" =>
    /\ \A c \in EmptyCells :
         \E r \in accepted :
           r.side > 2 /\ c \in RegionCells(r.x, r.y, r.side)
    /\ \A r \in accepted : \A k \in 0 .. 3 :
         Cardinality(
           {c \in RegionCells(corner_x(r.x, r.side, k),
                              corner_y(r.y, r.side, k), r.side \div 2) :
              samples_[c].weight > 0}) = 1
    /\ supersampling <= 2 => EmptyCells = {}

\* Reached: a completed call in which one quadrant of side 4 was accepted,
\* leaving cells of weight 0, and another was refined down to single cells.
C4_Witness ==
  /\ s_pc = "done" /\ supersampling = 8
  /\ \E r \in accepted : r.side = 4
  /\ \E r \in accepted : r.side = 2
  /\ EmptyCells # {}

\* C5: sample reuse.  No cell receives more than one traced sample, and the
\* number of rays cast during one sample() call never exceeds S*S.
C5_SampleReuse ==
  s_pc # "idle" =>
    /\ \A c \in DOMAIN casts : casts[c] <= 1
    /\ rays <= supersampling * supersampling
    /\ rays = Cardinality({c \in DOMAIN samples_ : samples_[c].weight > 0})

\* Reached: a refined region reused the sample it was given by its parent, in
\* a cell that is not the first cell of the quadrant holding it.
C5_Witness ==
  /\ s_pc = "running" /\ stack # << >>
  /\ Len(stack) >= 2 /\ Top.side > 1 /\ Top.pc = "corners" /\ Top.ci > 0
  /\ rays < 4 + Top.ci
  /\ \E k \in 0 .. 3 :
       LET ox == corner_x(Top.x, Top.side, k)
           oy == corner_y(Top.y, Top.side, k)
       IN  /\ k < Top.ci
           /\ samples_[<<ox, oy>>].weight = 0
           /\ get_any(ox, oy, Top.side \div 2) # {}

-----------------------------------------------------------------------------
(* Shader *)

\* should_continue: the range check that throws std::logic_error
C7_Mut_importance_out_of_range(importance) == RLt(importance, R0)
importance_out_of_range(importance) ==
  RLt(importance, R0) \/ RLt(R1, importance)

\* should_continue: the returned value
C6_Mut_should_continue(current_depth, current_importance) ==
  /\ current_depth <= policy.max_depth + 1
  /\ RLe(policy.min_importance, current_importance)
should_continue(current_depth, current_importance) ==
  /\ current_depth <= policy.max_depth
  /\ RLe(policy.min_importance, current_importance)

\* do_shade: the test that makes the loop over the lights `continue`
C10_Mut_occluded(obstacle_d2, light_d2) ==
  obstacle_d2 # 0 /\ obstacle_d2 <= light_d2
occluded(obstacle_d2, light_d2) ==
  obstacle_d2 # 0 /\ obstacle_d2 < light_d2

\* blend_light
blend_light(material, base_color, light_color, cos_alpha) ==
  IF RLe(cos_alpha, R0) THEN material.ambient
  ELSE hdr_add(
         hdr_add(base_color,
                 hdr_scale(hdr_scale(light_color, material.diffuse),
                           cos_alpha)),
         hdr_scale(hdr_scale(light_color, material.specular),
                   RPow(cos_alpha, material.specular_exponent)))

\* blend_reflection
C11_Mut_blend_reflection(material, base_color, reflection_color) ==
  hdr_add(base_color, reflection_color)
blend_reflection(material, base_color, reflection_color) ==
  hdr_add(base_color, hdr_scale(reflection_color, material.reflectance))

\* The direct do_shade calls tried: every importance at the depth limit
\* and beyond it, every importance outside [0, 1] at every depth, and below
\* the depth limit one importance in range other than the 1.0 shade passes.
DirectCall(e) ==
  \/ e.depth >= policy.max_depth
  \/ importance_out_of_range(e.importance)
  \/ e.importance = Half

\* The state at the outermost call: shade(scene, ray, policy, prng), which
\* calls do_shade(scene, ray, policy, 0, 1.0, prng), or do_shade itself with
\* any depth and importance.
InitShade ==
  /\ PoolIdle
  /\ SampleIdle
  /\ PolicyIdle
  /\ ImageIdle
  /\ SceneIdle
  /\ ChannelIdle
  /\ NormalIdle
  /\ RecurIdle
  /\ ThreadIdle
  /\ sh_pc = "call"
  /\ policy \in [background : {Background}, max_depth : 0 .. MaxDepth,
                 min_importance : MinImportances]
  /\ num_lights \in 0 .. MaxLights
  /\ sh_entry \in
       {[via |-> "shade", depth |-> 0, importance |-> R1]} \cup
       {e \in [via : {"do_shade"}, depth : 0 .. policy.max_depth + 1,
               importance : Importances] : DirectCall(e)}
  /\ sh_call = [depth |-> sh_entry.depth, importance |-> sh_entry.importance]
  /\ sh_stack = << >>
  /\ sh_ret = Hdr(R0, R0, R0)
  /\ sh_err = "none"
  /\ sh_queries = 0
  /\ sh_chain = <<sh_call>>
  /\ sh_light = NoLight
  /\ sh_last = NoFrame

\* do_shade: should_continue throws
DoShadeThrow ==
  /\ ShadeFrame
  /\ UNCHANGED sh_last
  /\ sh_pc = "call"
  /\ importance_out_of_range(sh_call.importance)
  /\ sh_pc' = "threw"
  /\ sh_err' = "logic_error"
  /\ UNCHANGED <<policy, num_lights, sh_entry, sh_call, sh_stack, sh_ret,
                 sh_queries, sh_chain, sh_light>>

\* do_shade: if (!should_continue(depth, importance, policy))
\*             return policy.background;
DoShadeStop ==
  /\ ShadeFrame
  /\ UNCHANGED sh_last
  /\ sh_pc = "call"
  /\ ~importance_out_of_range(sh_call.importance)
  /\ ~should_continue(sh_call.depth, sh_call.importance)
  /\ sh_pc' = "return"
  /\ sh_ret' = policy.background
  /\ UNCHANGED <<policy, num_lights, sh_entry, sh_call, sh_stack, sh_err,
                 sh_queries, sh_chain, sh_light>>

\* do_shade: scene.intersect_solid(ray) finds nothing
DoShadeMiss ==
  /\ ShadeFrame
  /\ UNCHANGED sh_last
  /\ sh_pc = "call"
  /\ ~importance_out_of_range(sh_call.importance)
  /\ should_continue(sh_call.depth, sh_call.importance)
  /\ sh_queries' = sh_queries + 1
  /\ sh_pc' = "return"
  /\ sh_ret' = policy.background
  /\ UNCHANGED <<policy, num_lights, sh_entry, sh_call, sh_stack, sh_err,
                 sh_chain, sh_light>>

\* do_shade: scene.intersect_solid(ray) hits a solid;
\* hdr_color result = i->texture();
DoShadeHit ==
  /\ ShadeFrame
  /\ UNCHANGED sh_last
  /\ sh_pc = "call"
  /\ ~importance_out_of_range(sh_call.importance)
  /\ should_continue(sh_call.depth, sh_call.importance)
  /\ sh_queries' = sh_queries + 1
  /\ \E m \in Materials, textured \in BOOLEAN :
       sh_stack' = Append(sh_stack,
         [depth |-> sh_call.depth, importance |-> sh_call.importance,
          material |-> m,
          result |-> IF textured THEN TextureColor ELSE m.ambient,
          li |-> 1])
  /\ sh_pc' = "frame"
  /\ UNCHANGED <<policy, num_lights, sh_entry, sh_call, sh_ret, sh_err,
                 sh_chain, sh_light>>

ShTop == sh_stack[Len(sh_stack)]

\* do_shade: one iteration of the loop over scene.lights(): the shadow ray,
\* the occlusion test, and blend_light
DoShadeLight ==
  /\ ShadeFrame
  /\ UNCHANGED sh_last
  /\ sh_pc = "frame" /\ ShTop.li <= num_lights
  /\ sh_queries' = sh_queries + 1
  /\ \E shadow \in ShadowRays, cos_alpha \in Cosines :
       LET od2 == shadow.obstacle_d2
           ld2 == shadow.light_d2
           after ==
             IF occluded(od2, ld2) THEN ShTop.result
             ELSE blend_light(ShTop.material, ShTop.result, LightColor,
                              cos_alpha)
       IN  /\ sh_stack' = [sh_stack EXCEPT ![Len(sh_stack)] =
                             [@ EXCEPT !.li = @ + 1, !.result = after]]
           /\ sh_light' =
                [kind |-> IF occluded(od2, ld2)
                          THEN "skipped" ELSE "blended",
                 obstacle_d2 |-> od2, light_d2 |-> ld2,
                 cos_alpha |-> cos_alpha, material |-> ShTop.material,
                 before |-> ShTop.result, after |-> after]
  /\ UNCHANGED <<sh_pc, policy, num_lights, sh_entry, sh_call, sh_ret,
                 sh_err, sh_chain>>

\* do_shade: the loop over the lights is over (its variables go out of
\* scope); the recursive call for the reflected ray
DoShadeReflect ==
  /\ ShadeFrame
  /\ UNCHANGED sh_last
  /\ sh_pc = "frame" /\ ShTop.li > num_lights
  /\ sh_call' = [depth |-> ShTop.depth + 1,
                 importance |-> RMul(ShTop.material.reflectance,
                                     ShTop.importance)]
  /\ sh_chain' = Append(sh_chain, sh_call')
  /\ sh_pc' = "call"
  /\ sh_light' = NoLight
  /\ UNCHANGED <<policy, num_lights, sh_entry, sh_stack, sh_ret, sh_err,
                 sh_queries>>

\* do_shade: the recursive call has returned;
\* result = blend_reflection(...); return result;
DoShadeBlend ==
  /\ ShadeFrame
  /\ sh_pc = "return" /\ sh_stack # << >>
  /\ sh_ret' = blend_reflection(ShTop.material, ShTop.result, sh_ret)
  /\ sh_last' = [depth |-> ShTop.depth, importance |-> ShTop.importance,
                 material |-> ShTop.material, result |-> ShTop.result,
                 li |-> ShTop.li, reflection |-> sh_ret]
  /\ sh_stack' = SubSeq(sh_stack, 1, Len(sh_stack) - 1)
  /\ UNCHANGED <<sh_pc, policy, num_lights, sh_entry, sh_call, sh_err,
                 sh_queries, sh_chain, sh_light>>

\* the outermost call returns
ShadeDone ==
  /\ ShadeFrame
  /\ UNCHANGED sh_last
  /\ sh_pc = "return" /\ sh_stack = << >>
  /\ sh_pc' = "done"
  /\ UNCHANGED <<policy, num_lights, sh_entry, sh_call, sh_stack, sh_ret,
                 sh_err, sh_queries, sh_chain, sh_light>>

NextShade ==
  \/ DoShadeThrow
  \/ DoShadeStop
  \/ DoShadeMiss
  \/ DoShadeHit
  \/ DoShadeLight
  \/ DoShadeReflect
  \/ DoShadeBlend
  \/ ShadeDone

SpecShade == InitShade /\ [][NextShade]_vars

-----------------------------------------------------------------------------
(* Claims about the shader *)

InRange(importance) == RLe(R0, importance) /\ RLe(importance, R1)
AtDepthLimit == sh_entry.via = "do_shade" /\ sh_entry.depth = policy.max_depth + 1

\* C6, as the specification states it: do_shade called with
\* depth = policy.max_depth + 1 returns exactly policy.background, whatever
\* the importance argument, without querying the scene.
C6_BackgroundWhateverImportance ==
  AtDepthLimit =>
    /\ sh_pc \in {"call", "return", "done"}
    /\ sh_queries = 0
    /\ sh_pc \in {"return", "done"} => sh_ret = policy.background

\* C6, amended: do_shade called with depth = policy.max_depth + 1 and an
\* importance within [0, 1] returns exactly policy.background without
\* querying the scene (an importance outside [0, 1] makes the call throw).
C6_BackgroundAtDepthLimit ==
  (AtDepthLimit /\ InRange(sh_entry.importance)) =>
    /\ sh_pc \in {"call", "return", "done"}
    /\ sh_queries = 0
    /\ sh_stack = << >>
    /\ sh_pc \in {"return", "done"} => sh_ret = policy.background

\* A call at depth max_depth + 1 with an importance in range has returned.
C6_Witness ==
  /\ AtDepthLimit
  /\ InRange(sh_entry.importance)
  /\ RLe(policy.min_importance, sh_entry.importance)
  /\ sh_pc = "done"

\* What holds of a do_shade call whose importance is outside [0, 1], whatever
\* the error is: no colour is returned, the error is raised by that very call
\* and no scene intersection precedes it.
RejectedAtTheCall ==
  /\ sh_pc \in {"call", "threw"}
  /\ sh_queries = 0
  /\ sh_stack = << >>
  /\ sh_chain = <<[depth |-> sh_entry.depth, importance |-> sh_entry.importance]>>
  /\ sh_ret = Hdr(R0, R0, R0)

\* C7, as the specification states it: a do_shade call with an importance
\* outside [0, 1] returns no colour; it fails with an invalid-argument error
\* raised at that call, before any scene intersection, and nothing is clamped.
C7_InvalidArgumentError ==
  (sh_entry.via = "do_shade" /\ ~InRange(sh_entry.importance)) =>
    /\ RejectedAtTheCall
    /\ sh_pc = "threw" => sh_err = "invalid_argument"

\* C7, amended: a do_shade call with an importance outside [0, 1] returns no
\* colour; it fails with std::logic_error (not std::invalid_argument) raised
\* at that call, before any scene intersection, and nothing is clamped.
C7_LogicErrorBeforeIntersection ==
  (sh_entry.via = "do_shade" /\ ~InRange(sh_entry.importance)) =>
    /\ RejectedAtTheCall
    /\ sh_pc = "threw" => sh_err = "logic_error"

\* A call with an importance above 1 has thrown.
C7_Witness ==
  /\ sh_entry.via = "do_shade"
  /\ RLt(R1, sh_entry.importance)
  /\ sh_pc = "threw"

\* C8: every recursive do_shade call gets the caller's depth + 1 and the
\* caller's importance times the hit material's reflectance; along a chain
\* started by shade (depth 0, importance 1) the importance is non-increasing
\* and within [0, 1], and the range check never throws.
C8_ImportanceMonotone ==
  /\ (sh_pc = "call" /\ sh_stack # << >>) =>
       /\ sh_call.depth = ShTop.depth + 1
       /\ sh_call.importance =
            RMul(ShTop.importance, ShTop.material.reflectance)
       /\ sh_chain[Len(sh_chain)] = sh_call
  /\ sh_entry.via = "shade" =>
       /\ sh_pc # "threw" /\ sh_err = "none"
       /\ sh_chain[1] = [depth |-> 0, importance |-> R1]
       /\ \A i \in 1 .. Len(sh_chain) : InRange(sh_chain[i].importance)
       /\ \A i \in 1 .. Len(sh_chain) - 1 :
            /\ sh_chain[i + 1].depth = sh_chain[i].depth + 1
            /\ RLe(sh_chain[i + 1].importance, sh_chain[i].importance)

\* shade has recursed twice and the importance has strictly decreased twice.
C8_Witness ==
  /\ sh_entry.via = "shade"
  /\ Len(sh_chain) = 3
  /\ RLt(sh_chain[2].importance, sh_chain[1].importance)
  /\ RLt(sh_chain[3].importance, sh_chain[2].importance)
  /\ sh_pc = "done"

\* C9, as the specification states it: a light that is not occluded and whose
\* cosine with the normal is <= 0 leaves the colour accumulated so far
\* unchanged.
C9_FacingAwayAddsNothing ==
  (sh_light.kind = "blended" /\ RLe(sh_light.cos_alpha, R0)) =>
    sh_light.after = sh_light.before

\* What blend_light does instead: such a light replaces the accumulated colour
\* by the material's base colour.
C9_FacingAwayResets ==
  (sh_light.kind = "blended" /\ RLe(sh_light.cos_alpha, R0)) =>
    sh_light.after = sh_light.material.ambient

\* An unoccluded light facing away has changed the accumulated colour.
C9_Witness ==
  /\ sh_light.kind = "blended"
  /\ RLe(sh_light.cos_alpha, R0)
  /\ sh_light.after # sh_light.before

\* C10: a light whose shadow ray meets a solid strictly nearer (in squared
\* distance) than the light is skipped and leaves the accumulated colour
\* unchanged; any other light (no obstacle, or one not nearer than the light)
\* is blended, which for a positive cosine adds its diffuse and specular
\* terms.
C10_ShadowOcclusion ==
  sh_light.kind # "none" =>
    IF sh_light.obstacle_d2 # 0 /\ sh_light.obstacle_d2 < sh_light.light_d2
    THEN /\ sh_light.kind = "skipped"
         /\ sh_light.after = sh_light.before
    ELSE /\ sh_light.kind = "blended"
         /\ RLt(R0, sh_light.cos_alpha) =>
              sh_light.after =
                hdr_add(
                  hdr_add(sh_light.before,
                          hdr_scale(LightColor,
                                    RMul(sh_light.material.diffuse,
                                         sh_light.cos_alpha))),
                  hdr_scale(LightColor,
                            RMul(sh_light.material.specular,
                                 RPow(sh_light.cos_alpha,
                                      sh_light.material.specular_exponent))))

\* A light behind a nearer obstacle has been skipped after an earlier light
\* had been blended into the result.
C10_Witness ==
  /\ sh_light.kind = "skipped"
  /\ sh_light.obstacle_d2 < sh_light.light_d2
  /\ sh_light.before # sh_light.material.ambient
  /\ sh_light.before # TextureColor

\* C11, as the specification states it: with policy.max_depth = 0, shade of
\* a ray that hits a solid returns the colour accumulated from the texture
\* and the lights with no reflection contribution at all.
C11_NoReflectionAtDepthZero ==
  (sh_pc = "done" /\ sh_entry.via = "shade" /\ policy.max_depth = 0
     /\ sh_last # NoFrame) =>
    sh_ret = sh_last.result

\* C11, amended: with policy.max_depth = 0, shade of a ray that hits a solid
\* makes one recursive do_shade call at depth 1, which returns
\* policy.background without querying the scene; the result is the colour
\* accumulated from the texture and the lights plus policy.background times
\* the material's reflectance.
C11_BackgroundReflectedAtDepthZero ==
  (sh_entry.via = "shade" /\ policy.max_depth = 0) =>
    /\ Len(sh_chain) <= 2
    /\ Len(sh_stack) <= 1
    /\ sh_queries <= 1 + num_lights
    /\ (sh_pc = "done" /\ sh_last # NoFrame) =>
         /\ sh_chain = <<[depth |-> 0, importance |-> R1],
                         [depth |-> 1,
                          importance |-> sh_last.material.reflectance]>>
         /\ sh_last.reflection = policy.background
         /\ sh_queries = 1 + num_lights
         /\ sh_ret = hdr_add(sh_last.result,
                             hdr_scale(policy.background,
                                       sh_last.material.reflectance))

\* shade with max_depth = 0 has returned for a hit on a solid of reflectance
\* 1/2 lit by two lights, and the result differs from the direct lighting.
C11_Witness ==
  /\ sh_pc = "done" /\ sh_entry.via = "shade" /\ policy.max_depth = 0
  /\ sh_last # NoFrame
  /\ sh_last.material.reflectance = Half
  /\ num_lights = 2
  /\ sh_ret # sh_last.result

-----------------------------------------------------------------------------
(* Configuration of the shading policy *)

\* The member initialisers: background_ = {0.0, 0.0, 0.0}, max_depth_ = 16,
\* min_importance_ = EPSILON (1e-8, math.hpp:22)
default_max_depth == 16
EPSILON == <<1, 100000000>>
DefaultPolicy ==
  [background |-> Hdr(R0, R0, R0), max_depth |-> default_max_depth,
   min_importance |-> EPSILON]

\* main: hdr_color const background{0.05, 0.05, 0.2};
\*       shading_pol.min_importance = 0.01;
MainBackground == Hdr(<<1, 20>>, <<1, 20>>, <<1, 5>>)
MainMinImportance == <<1, 100>>

\* Arguments the modifiers are called with.
BackgroundArgs == {Background, MainBackground}
MaxDepthArgs == {0, 1}
MinImportanceArgs == {<<-1, 2>>, R0, Half, R1, <<3, 2>>}

\* min_importance(double): the test that throws std::invalid_argument
C19_Mut_min_importance_rejects(new_min_importance) ==
  RLt(new_min_importance, R0)
min_importance_rejects(new_min_importance) ==
  RLt(new_min_importance, R0) \/ RLt(R1, new_min_importance)

\* A policy has been default-constructed and nothing else has happened.
InitPolicy ==
  /\ PoolIdle
  /\ SampleIdle
  /\ ImageIdle
  /\ SceneIdle
  /\ ChannelIdle
  /\ NormalIdle
  /\ RecurIdle
  /\ ThreadIdle
  /\ sh_pc = "idle"
  /\ policy = DefaultPolicy
  /\ num_lights = 0
  /\ sh_entry = [via |-> "none", depth |-> 0, importance |-> R1]
  /\ sh_call = [depth |-> 0, importance |-> R1]
  /\ sh_stack = << >>
  /\ sh_ret = Hdr(R0, R0, R0)
  /\ sh_err = "none"
  /\ sh_queries = 0
  /\ sh_chain = << >>
  /\ sh_light = NoLight
  /\ sh_last = NoFrame
  /\ pol_pc = "setup"
  /\ pol_calls = 0
  /\ pol_set = NoSet

\* void background(hdr_color const& new_background) noexcept
SetBackground ==
  /\ PolicyFrame
  /\ pol_pc = "setup" /\ pol_calls < MaxPolicyCalls
  /\ \E c \in BackgroundArgs :
       /\ policy' = [policy EXCEPT !.background = c]
       /\ pol_set' = [op |-> "background", arg |-> R0, err |-> "none",
                      before |-> policy]
  /\ pol_calls' = pol_calls + 1
  /\ UNCHANGED pol_pc

\* void max_depth(unsigned new_max_depth) noexcept
SetMaxDepth ==
  /\ PolicyFrame
  /\ pol_pc = "setup" /\ pol_calls < MaxPolicyCalls
  /\ \E d \in MaxDepthArgs :
       /\ policy' = [policy EXCEPT !.max_depth = d]
       /\ pol_set' = [op |-> "max_depth", arg |-> R0, err |-> "none",
                      before |-> policy]
  /\ pol_calls' = pol_calls + 1
  /\ UNCHANGED pol_pc

\* void min_importance(double new_min_importance): throw, or assign
SetMinImportance ==
  /\ PolicyFrame
  /\ pol_pc = "setup" /\ pol_calls < MaxPolicyCalls
  /\ \E v \in MinImportanceArgs :
       IF min_importance_rejects(v)
       THEN /\ UNCHANGED policy
            /\ pol_set' = [op |-> "min_importance", arg |-> v,
                           err |-> "invalid_argument", before |-> policy]
       ELSE /\ policy' = [policy EXCEPT !.min_importance = v]
            /\ pol_set' = [op |-> "min_importance", arg |-> v,
                           err |-> "none", before |-> policy]
  /\ pol_calls' = pol_calls + 1
  /\ UNCHANGED pol_pc

\* main: shading_policy shading_pol; shading_pol.background = background;
\* shading_pol.min_importance = 0.01; (the members are assigned directly)
MainPolicy ==
  /\ PolicyFrame
  /\ pol_pc = "setup" /\ pol_calls = 0
  /\ policy' = [DefaultPolicy EXCEPT !.background = MainBackground,
                                     !.min_importance = MainMinImportance]
  /\ pol_set' = [op |-> "main", arg |-> MainMinImportance, err |-> "none",
                 before |-> policy]
  /\ pol_calls' = MaxPolicyCalls
  /\ UNCHANGED pol_pc

\* The policy is handed to the renderer (main: renderer_pool pool{..., shading_pol}).
PolicyRender ==
  /\ PolicyFrame
  /\ pol_pc = "setup"
  /\ pol_pc' = "rendering"
  /\ UNCHANGED <<policy, pol_calls, pol_set>>

NextPolicy ==
  \/ SetBackground
  \/ SetMaxDepth
  \/ SetMinImportance
  \/ MainPolicy
  \/ PolicyRender

SpecPolicy == InitPolicy /\ [][NextPolicy]_vars

-----------------------------------------------------------------------------
(* Claims about the shading policy *)

-----------------------------------------------------------------------------
(* renderer_pool *)

\* hdr_image::index total_pixels() const
total_pixels == width * height

\* basic_image::pixel_at: the bounds test guarding pixels_[y * width_ + x]
pixel_at_ok(x, y) == x < width /\ x * y < total_pixels

\* get_job, first test: current_job_index_ * job_size < total_pixels(), the
\* product being computed in `unsigned`
C26_Mut_get_job_may_claim(c) == TRUE
get_job_may_claim(c) == c * job_size < total_pixels

\* get_job, second test on the fetched index (a std::size_t)
C2_Mut_get_job_has_job(index) == index * job_size <= total_pixels
get_job_has_job(index) == index * job_size < total_pixels

\* get_job: j = index * job_size
job_start(index) == index * job_size

\* worker: the condition of the pixel loop
C17_Mut_loop_cond(index, begin, total_size) ==
  index < begin + job_size - 1 /\ index < total_size
C1_Mut_loop_cond(index, begin, total_size) ==
  index <= begin + job_size /\ index < total_size
loop_cond(index, begin, total_size) ==
  index < begin + job_size /\ index < total_size

\* worker: unsigned const total_size = total_pixels();
total_size == total_pixels

\* double percent_complete() const, as a fraction <<numerator, denominator>>
C14_Mut_percent_complete == <<current_job_index_ * job_size, total_pixels>>
percent_complete ==
  LET total == total_pixels
      done  == current_job_index_ * job_size
  IN  IF done <= total THEN <<done, total>> ELSE <<1, 1>>

\* progress_monitor::update_progress: the test that throws
\* std::invalid_argument, on a fraction <<numerator, denominator>>
update_progress_throws(progress) ==
  progress[1] < 0 * progress[2] \/ progress[1] > 1 * progress[2]

\* bool done() const
C15_Mut_done == current_job_index_ * job_size > total_pixels
C27_Mut_done == current_job_index_ * job_size = total_pixels
done == current_job_index_ * job_size >= total_pixels

InitPool ==
  /\ SampleIdle
  /\ ShadeIdle
  /\ PolicyIdle
  /\ ImageIdle
  /\ SceneIdle
  /\ ChannelIdle
  /\ NormalIdle
  /\ RecurIdle
  /\ ThreadIdle
  /\ pool = "new"
  /\ num_threads_ \in 0 .. MaxThreads
  /\ width \in 1 .. MaxWidth
  /\ height \in 1 .. MaxHeight
  /\ current_job_index_ = 0
  /\ threads_ = << >>
  /\ mainpc = "idle"
  /\ run_i = 0
  /\ join_i = 0
  /\ ran = FALSE
  /\ in_dtor = FALSE
  /\ finish_calls = 0
  /\ joined = FALSE
  /\ wpc = [t \in Workers |-> "none"]
  /\ wbegin = [t \in Workers |-> 0]
  /\ windex = [t \in Workers |-> 0]
  /\ writes = [p \in 0 .. (width * height - 1) |-> 0]
  /\ handed = << >>
  /\ prng = [t \in Workers |-> NoPrng]
  /\ image = [p \in 0 .. (width * height - 1) |-> NoColor]

\* worker: sampler_prng_engine prng{hasher(std::this_thread::get_id())};
\* every thread has an id of its own, and the generator starts at the first
\* output of the stream its seed selects
thread_id_hash(t) == t
prng_seeded(seed) == [seed |-> seed, pos |-> 0]

\* The random draws one sample() call takes from the generator it is given:
\* the two jitter offsets of sample_one (policy.jitter set, supersampling 1,
\* the ray missing every solid).  An output of the generator is written as
\* <<seed, position in the stream>>.
draws_per_sample == 2
prng_draws(g) == [k \in 1 .. draws_per_sample |-> <<g.seed, g.pos + k - 1>>]
C18_Mut_prng_advance(g) == g
prng_advance(g) == [g EXCEPT !.pos = @ + draws_per_sample]

\* sample(scene, camera, pixel, policy, prng): for a fixed scene, camera and
\* policy the colour is a function of the pixel and of the draws taken
sample_color(pixel, g) == [pixel |-> pixel, draws |-> prng_draws(g)]

\* renderer_pool::renderer_pool: the constructor returns a live pool or
\* throws std::out_of_range
C12_Mut_ctor_result(threads) == "live"
ctor_result(threads) == IF threads = 0 THEN "out_of_range" ELSE "live"

\* renderer_pool::renderer_pool
Ctor ==
  /\ PoolFrame
  /\ UNCHANGED <<prng, image>>
  /\ pool = "new"
  /\ pool' = ctor_result(num_threads_)
  /\ UNCHANGED <<num_threads_, width, height, current_job_index_, threads_,
                 mainpc, run_i, join_i, ran, in_dtor, finish_calls, joined,
                 wpc, wbegin, windex, writes, handed>>

\* run(): entry (called once)
RunBegin ==
  /\ PoolFrame
  /\ UNCHANGED <<prng, image>>
  /\ pool = "live" /\ mainpc = "idle" /\ ~ran
  /\ mainpc' = "run"
  /\ run_i' = 0
  /\ ran' = TRUE
  /\ UNCHANGED <<pool, num_threads_, width, height, current_job_index_,
                 threads_, join_i, in_dtor, finish_calls, joined,
                 wpc, wbegin, windex, writes, handed>>

\* run(): threads_.push_back(std::thread([this] { worker(); }))
RunSpawn ==
  /\ PoolFrame
  /\ UNCHANGED image
  /\ mainpc = "run" /\ run_i < num_threads_
  /\ threads_' = Append(threads_, run_i + 1)
  /\ wpc' = [wpc EXCEPT ![run_i + 1] = "get_job"]
  /\ prng' = [prng EXCEPT ![run_i + 1] = prng_seeded(thread_id_hash(run_i + 1))]
  /\ run_i' = run_i + 1
  /\ UNCHANGED <<pool, num_threads_, width, height, current_job_index_,
                 mainpc, join_i, ran, in_dtor, finish_calls, joined,
                 wbegin, windex, writes, handed>>

\* run(): return
RunReturn ==
  /\ PoolFrame
  /\ UNCHANGED <<prng, image>>
  /\ mainpc = "run" /\ run_i = num_threads_
  /\ mainpc' = "idle"
  /\ UNCHANGED <<pool, num_threads_, width, height, current_job_index_,
                 threads_, run_i, join_i, ran, in_dtor, finish_calls, joined,
                 wpc, wbegin, windex, writes, handed>>

\* finish(): entry, by an explicit call
FinishBegin ==
  /\ PoolFrame
  /\ UNCHANGED <<prng, image>>
  /\ pool = "live" /\ mainpc = "idle" /\ finish_calls < MaxFinishCalls
  /\ mainpc' = "finish"
  /\ join_i' = 1
  /\ in_dtor' = FALSE
  /\ finish_calls' = finish_calls + 1
  /\ UNCHANGED <<pool, num_threads_, width, height, current_job_index_,
                 threads_, run_i, ran, joined,
                 wpc, wbegin, windex, writes, handed>>

\* ~renderer_pool() { finish(); }
Destroy ==
  /\ PoolFrame
  /\ UNCHANGED <<prng, image>>
  /\ pool = "live" /\ mainpc = "idle"
  /\ mainpc' = "finish"
  /\ join_i' = 1
  /\ in_dtor' = TRUE
  /\ UNCHANGED <<pool, num_threads_, width, height, current_job_index_,
                 threads_, run_i, ran, finish_calls, joined,
                 wpc, wbegin, windex, writes, handed>>

\* std::thread::join: returns once the thread's function has returned
C13_Mut_join_returns(t) == wpc[t] # "none"
C16_Mut_join_returns(t) == wpc[t] \in {"exited", "loop"}
join_returns(t) == wpc[t] = "exited"

\* finish(): thread.join() returns once that worker has left worker()
FinishJoin ==
  /\ PoolFrame
  /\ UNCHANGED <<prng, image>>
  /\ mainpc = "finish" /\ join_i <= Len(threads_)
  /\ join_returns(threads_[join_i])
  /\ join_i' = join_i + 1
  /\ UNCHANGED <<pool, num_threads_, width, height, current_job_index_,
                 threads_, mainpc, run_i, ran, in_dtor, finish_calls, joined,
                 wpc, wbegin, windex, writes, handed>>

\* finish(): threads_.clear(); return
FinishReturn ==
  /\ PoolFrame
  /\ UNCHANGED <<prng, image>>
  /\ mainpc = "finish" /\ join_i > Len(threads_)
  /\ threads_' = << >>
  /\ mainpc' = "idle"
  /\ joined' = (joined \/ ran)
  /\ pool' = IF in_dtor THEN "destroyed" ELSE pool
  /\ in_dtor' = FALSE
  /\ UNCHANGED <<num_threads_, width, height, current_job_index_,
                 run_i, join_i, ran, finish_calls,
                 wpc, wbegin, windex, writes, handed>>

\* get_job: if (current_job_index_ * job_size < total_pixels()); a false
\* test makes get_job return false and the worker leave its loop
WorkerCheck(t) ==
  /\ PoolFrame
  /\ UNCHANGED <<prng, image>>
  /\ wpc[t] = "get_job"
  /\ wpc' = [wpc EXCEPT ![t] =
               IF get_job_may_claim(current_job_index_)
               THEN "fetch_add" ELSE "exited"]
  /\ UNCHANGED <<pool, num_threads_, width, height, current_job_index_,
                 threads_, mainpc, run_i, join_i, ran, in_dtor, finish_calls,
                 joined, wbegin, windex, writes, handed>>

\* get_job: index = std::atomic_fetch_add(&current_job_index_, 1u), the
\* second test, and in worker() the start of the pixel loop
WorkerFetchAdd(t) ==
  /\ PoolFrame
  /\ UNCHANGED <<prng, image>>
  /\ wpc[t] = "fetch_add"
  /\ LET index == current_job_index_ IN
       /\ current_job_index_' = current_job_index_ + 1
       /\ IF get_job_has_job(index)
          THEN /\ wbegin' = [wbegin EXCEPT ![t] = job_start(index)]
               /\ windex' = [windex EXCEPT ![t] = job_start(index)]
               /\ handed' = Append(handed,
                                   [start |-> job_start(index), worker |-> t])
               /\ wpc' = [wpc EXCEPT ![t] = "loop"]
          ELSE /\ wpc' = [wpc EXCEPT ![t] = "exited"]
               /\ UNCHANGED <<wbegin, windex, handed>>
  /\ UNCHANGED <<pool, num_threads_, width, height, threads_, mainpc, run_i,
                 join_i, ran, in_dtor, finish_calls, joined, writes>>

\* worker: one iteration of the pixel loop:
\* destination_.pixel_at(x, y) = sample(...); ++index
WorkerPixel(t) ==
  /\ PoolFrame
  /\ wpc[t] = "loop"
  /\ loop_cond(windex[t], wbegin[t], total_size)
  /\ LET x == windex[t] % width
         y == windex[t] \div width
     IN  IF pixel_at_ok(x, y)
         THEN /\ writes' = [writes EXCEPT ![y * width + x] = @ + 1]
              /\ image' = [image EXCEPT ![y * width + x] =
                             sample_color(y * width + x, prng[t])]
              /\ prng' = [prng EXCEPT ![t] = prng_advance(@)]
              /\ windex' = [windex EXCEPT ![t] = @ + 1]
              /\ UNCHANGED wpc
         ELSE /\ wpc' = [wpc EXCEPT ![t] = "threw"]
              /\ UNCHANGED <<writes, windex, prng, image>>
  /\ UNCHANGED <<pool, num_threads_, width, height, current_job_index_,
                 threads_, mainpc, run_i, join_i, ran, in_dtor, finish_calls,
                 joined, wbegin, handed>>

\* worker: the pixel loop ends; back to get_job
WorkerJobEnd(t) ==
  /\ PoolFrame
  /\ UNCHANGED <<prng, image>>
  /\ wpc[t] = "loop"
  /\ ~loop_cond(windex[t], wbegin[t], total_size)
  /\ wpc' = [wpc EXCEPT ![t] = "get_job"]
  /\ UNCHANGED <<pool, num_threads_, width, height, current_job_index_,
                 threads_, mainpc, run_i, join_i, ran, in_dtor, finish_calls,
                 joined, wbegin, windex, writes, handed>>

NextPool ==
  \/ Ctor
  \/ RunBegin
  \/ RunSpawn
  \/ RunReturn
  \/ FinishBegin
  \/ Destroy
  \/ FinishJoin
  \/ FinishReturn
  \/ \E t \in Workers : WorkerCheck(t)
  \/ \E t \in Workers : WorkerFetchAdd(t)
  \/ \E t \in Workers : WorkerPixel(t)
  \/ \E t \in Workers : WorkerJobEnd(t)

SpecPool == InitPool /\ [][NextPool]_vars

\* One step of worker t, whichever it is.
WorkerStep(t) ==
  WorkerCheck(t) \/ WorkerFetchAdd(t) \/ WorkerPixel(t) \/ WorkerJobEnd(t)

\* The pool under a fair scheduler: every spawned thread keeps being
\* scheduled and each of its steps (a sample() call included) terminates; the
\* calling thread, once inside run() or finish(), keeps being scheduled too.
\* Whether and when the caller calls run(), finish() or the destructor is
\* left to the caller.
SpecPoolFair ==
  /\ InitPool
  /\ [][NextPool]_vars
  /\ \A t \in Workers : WF_vars(WorkerStep(t))
  /\ WF_vars(RunSpawn \/ RunReturn)
  /\ WF_vars(FinishJoin \/ FinishReturn)

-----------------------------------------------------------------------------
(* Claims about renderer_pool *)

Pixels == 0 .. (total_pixels - 1)

\* C1: partition safety.  No pixel index is ever written twice, and once a
\* finish() that followed run() has returned, every pixel index of the image
\* has been written exactly once.
C1_PartitionSafety ==
  /\ \A p \in Pixels : writes[p] <= 1
  /\ \A t \in Workers : wpc[t] # "threw"
  /\ joined => \A p \in Pixels : writes[p] = 1

\* Reached: finish() has returned after a run in which two different workers
\* each wrote the pixels of a job.
C1_Witness ==
  /\ joined
  /\ \E i, j \in 1 .. Len(handed) : handed[i].worker # handed[j].worker

\* C2: the jobs handed out by get_job have pairwise different starts, each a
\* multiple of job_size below total_pixels, so their pixel ranges are disjoint.
JobRange(s) ==
  {p \in Pixels : s <= p /\ p < s + job_size}

C2_JobsDisjoint ==
  /\ \A i \in 1 .. Len(handed) :
       /\ handed[i].start % job_size = 0
       /\ handed[i].start < total_pixels
  /\ \A i, j \in 1 .. Len(handed) :
       i # j => /\ handed[i].start # handed[j].start
                /\ JobRange(handed[i].start) \cap JobRange(handed[j].start) = {}

\* Reached: a worker passed the first test of get_job on a counter value that
\* another worker's fetch-and-add has since moved past the last job, while two
\* jobs have been handed out.
C2_Witness ==
  /\ Len(handed) >= 2
  /\ \E t \in Workers :
       wpc[t] = "fetch_add" /\ ~get_job_may_claim(current_job_index_)

NoWorkerStarted ==
  /\ threads_ = << >>
  /\ \A t \in Workers : wpc[t] = "none"

\* C12: constructing a renderer_pool with 0 threads fails with
\* std::out_of_range, after which no pool exists and no worker is ever
\* started; constructing with a positive thread count succeeds with the job
\* counter at 0 and no thread running.
C12_ZeroThreadsRejected ==
  /\ pool # "new" => (pool = "out_of_range" <=> num_threads_ = 0)
  /\ pool = "out_of_range" =>
       /\ NoWorkerStarted
       /\ ~ran /\ mainpc = "idle" /\ finish_calls = 0
       /\ current_job_index_ = 0
       /\ \A p \in Pixels : writes[p] = 0
  /\ (pool = "live" /\ ~ran) =>
       /\ NoWorkerStarted
       /\ current_job_index_ = 0

\* Reached: a construction with 0 threads has thrown.
C12_Witness ==
  pool = "out_of_range" /\ num_threads_ = 0

NoWorkerRunning == \A t \in Workers : wpc[t] \in {"none", "exited"}

\* C13: finish() returns only after every worker spawned by run() has left
\* its loop; a finish() that finds threads_ empty (called again, called before
\* run(), or called by the destructor after an explicit finish()) joins
\* nothing and changes neither the job counter nor the image; the destructor
\* always performs the join, so no worker is running once the pool is
\* destroyed.
C13_FinishJoinsAll ==
  /\ [](joined => NoWorkerRunning)
  /\ []((ran /\ mainpc = "idle" /\ threads_ = << >>) => NoWorkerRunning)
  /\ [](pool = "destroyed" => (NoWorkerRunning /\ threads_ = << >>))
  /\ [][(mainpc = "finish" /\ threads_ = << >>) =>
          /\ join_i' = join_i
          /\ current_job_index_' = current_job_index_
          /\ writes' = writes
          /\ wpc' = wpc
          /\ threads_' = threads_]_vars

\* Reached: the destructor's finish() runs after an explicit finish() that
\* joined two workers which had each written a job.
C13_Witness ==
  /\ mainpc = "finish" /\ in_dtor /\ threads_ = << >>
  /\ joined /\ finish_calls >= 1
  /\ \E i, j \in 1 .. Len(handed) : handed[i].worker # handed[j].worker

Min(a, b) == IF a <= b THEN a ELSE b

\* C14: in every reachable state of a constructed pool, percent_complete()
\* is min(1, c * job_size / total_pixels) for the current counter value c, so
\* it lies within [0, 1] even when workers have pushed the counter past the
\* last job, and update_progress accepts it.
C14_PercentWithinUnit ==
  pool \in {"live", "destroyed"} =>
    /\ percent_complete[2] > 0
    /\ percent_complete[1] * total_pixels =
         percent_complete[2] * Min(current_job_index_ * job_size, total_pixels)
    /\ 0 <= percent_complete[1] /\ percent_complete[1] <= percent_complete[2]
    /\ ~update_progress_throws(percent_complete)

\* Reached: the image is a whole number of jobs and two racing workers have
\* pushed the counter past the last job.
C14_Witness ==
  /\ total_pixels % job_size = 0
  /\ current_job_index_ * job_size >= total_pixels + job_size

\* C15: done() is true exactly when counter * job_size >= total_pixels, that
\* is exactly when no further job can be claimed: when done() is false a
\* get_job call that runs alone succeeds, when done() is true every get_job
\* call returns false; done() never turns false again.
C15_DoneIffNoJob ==
  /\ [](pool \in {"live", "destroyed"} =>
          /\ done <=> current_job_index_ * job_size >= total_pixels
          /\ done <=> ~get_job_may_claim(current_job_index_)
          /\ done <=> ~get_job_has_job(current_job_index_))
  /\ [][done => done']_vars
  /\ [][\A t \in Workers :
          /\ (done /\ WorkerCheck(t)) => wpc'[t] = "exited"
          /\ (done /\ WorkerFetchAdd(t)) =>
               (wpc'[t] = "exited" /\ handed' = handed)
          /\ (~done /\ WorkerCheck(t)) => wpc'[t] = "fetch_add"
          /\ (~done /\ WorkerFetchAdd(t)) =>
               /\ wpc'[t] = "loop"
               /\ handed' = Append(handed,
                                   [start |-> current_job_index_ * job_size,
                                    worker |-> t])]_vars

\* Reached: done() is true, one worker is inside get_job and another
\* is still writing a job, after two jobs have been handed out.
C15_Witness ==
  /\ done
  /\ \E t, u \in Workers :
       /\ t # u
       /\ wpc[t] \in {"get_job", "fetch_add"}
       /\ wpc[u] = "loop"
  /\ Len(handed) >= 2

AllWritten == \A p \in Pixels : writes[p] = 1
PercentIsOne == percent_complete[1] = percent_complete[2]

\* C16: done() = true and percent_complete() = 1.0 are no completion
\* barrier (they hold while a worker is still inside its last job and a
\* pixel is unwritten); done() implies percent_complete() = 1.0, and only
\* after a finish() that followed run(), or after the destruction of a pool
\* that ran, are all pixels written.
C16_OnlyFinishIsBarrier ==
  /\ (pool \in {"live", "destroyed"} /\ done) => PercentIsOne
  /\ joined => (AllWritten /\ done /\ NoWorkerRunning)
  /\ (pool = "destroyed" /\ ran) => (joined /\ AllWritten)

\* Reached: done() is true and percent_complete() is 1.0 while a worker is
\* inside its pixel loop and a pixel has not been written.
C16_Witness ==
  /\ pool = "live" /\ done /\ PercentIsOne
  /\ \E t \in Workers : wpc[t] = "loop" /\ loop_cond(windex[t], wbegin[t], total_size)
  /\ \E p \in Pixels : writes[p] = 0

\* every pixel of the job starting at s has been written
JobDone(s) == \A p \in JobRange(s) : writes[p] >= 1

\* C17: under fair scheduling every worker spawned by run() eventually leaves
\* its loop, and every finish() eventually returns; a worker leaves, or asks
\* for another job, only after it has written every pixel of every job it
\* claimed, and never leaves by an exception.
C17_WorkersTerminate ==
  /\ \A t \in Workers :
       (wpc[t] \in {"get_job", "fetch_add", "loop"}) ~> (wpc[t] = "exited")
  /\ (mainpc = "finish") ~> (mainpc = "idle")
  /\ [](\A t \in Workers : wpc[t] # "threw")
  /\ [](\A i \in 1 .. Len(handed) :
          LET t == handed[i].worker
              claimed_another ==
                \E k \in (i + 1) .. Len(handed) : handed[k].worker = t
          IN  (claimed_another \/ wpc[t] # "loop") => JobDone(handed[i].start))

\* Reached: a worker that wrote the pixels of two jobs has left its loop
\* while another worker is still inside a job.
C17_Witness ==
  /\ \E t, u \in Workers :
       /\ wpc[t] = "exited" /\ wpc[u] = "loop"
       /\ \E i, j \in 1 .. Len(handed) :
            i # j /\ handed[i].worker = t /\ handed[j].worker = t

\* the job that covers pixel p, as an index into handed (0: none yet)
JobOf(p) ==
  LET js == {i \in 1 .. Len(handed) : p \in JobRange(handed[i].start)}
  IN  IF js = {} THEN 0 ELSE CHOOSE i \in js : TRUE

\* the number of pixels the worker of job i sampled before pixel p of job i
SampledBefore(i, p) ==
  LET t == handed[i].worker
      earlier == {k \in 1 .. (i - 1) : handed[k].worker = t}
      RECURSIVE Sum(_)
      Sum(ks) == IF ks = {} THEN 0
                 ELSE LET k == CHOOSE k \in ks : TRUE
                      IN  Cardinality(JobRange(handed[k].start))
                            + Sum(ks \ {k})
  IN  Sum(earlier) + (p - handed[i].start)

\* C18, as the specification states it: the colour written for a pixel is
\* the same whichever worker computes it and whatever jobs that worker
\* processed before (it is what the first worker computes for the pixel with
\* its generator fresh).
C18_ThreadIndependent ==
  \A p \in Pixels :
    writes[p] >= 1 =>
      image[p] = sample_color(p, prng_seeded(thread_id_hash(1)))

\* C18, amended: the colour written for a pixel is computed from the draws
\* of the writing worker's own generator, which is seeded once per thread
\* from the thread id and advances across all the pixels that worker samples:
\* it depends on which worker claimed the pixel's job and on how many pixels
\* that worker sampled before, and on nothing else.
C18_ColourFollowsThreadStream ==
  \A p \in Pixels :
    IF writes[p] = 0 THEN image[p] = NoColor
    ELSE /\ JobOf(p) # 0
         /\ LET i == JobOf(p)
                t == handed[i].worker
            IN  image[p] =
                  sample_color(p,
                    [seed |-> thread_id_hash(t),
                     pos |-> draws_per_sample * SampledBefore(i, p)])

\* Reached: after finish(), two pixels were written by different workers and
\* some pixel was written by a worker that had sampled pixels of an earlier
\* job before.
C18_Witness ==
  /\ joined
  /\ \E p, q \in Pixels :
       image[p].draws[1][1] # image[q].draws[1][1]
  /\ \E p \in Pixels :
       LET i == JobOf(p) IN
         \E k \in 1 .. (i - 1) : handed[k].worker = handed[i].worker

-----------------------------------------------------------------------------
(* Claims about the supersampling value *)

\* The views subpixel_sample has created from the activation f: f's own
\* region, and the corners taken so far (all four once it recurses).
ViewsOf(f) ==
  {[x |-> f.x, y |-> f.y, side |-> f.side]} \cup
  {[x |-> corner_x(f.x, f.side, k), y |-> corner_y(f.y, f.side, k),
    side |-> f.side \div 2] :
     k \in {k \in 0 .. 3 : f.side > 1 /\ (f.pc = "recurse" \/ k < f.ci)}}

\* subpixel_ref::subpixel_ref: the four assertions
view_ok(v) ==
  /\ is_power2(v.side)
  /\ v.x < side_ /\ v.y < side_
  /\ v.x + v.side <= side_ /\ v.y + v.side <= side_

\* C20: a supersampling value that is not a power of two >= 1 ends main with
\* an error before a pool exists or a worker is started, and nothing is
\* sampled; a value that passes is used as it is: the grid is reset with
\* exactly that side, a power of two, and every view created during sampling
\* has a power-of-two side and lies inside the grid.
C20_SupersamplingValidated ==
  /\ s_pc = "rejected" =>
       /\ ~is_power2(supersampling)
       /\ PoolIdle /\ NoWorkerStarted
       /\ side_ = 0 /\ samples_ = << >> /\ stack = << >> /\ rays = 0
  /\ s_pc = "checked" => is_power2(supersampling) /\ side_ = 0
  /\ s_pc \in {"running", "done"} =>
       /\ is_power2(supersampling)
       /\ side_ = supersampling
       /\ DOMAIN samples_ = Cells(supersampling)
       /\ \A i \in 1 .. Len(stack) : \A v \in ViewsOf(stack[i]) : view_ok(v)
       /\ asserts_ok

\* Reached: main has thrown for the supersampling value 6.
C20_Witness ==
  /\ s_pc = "rejected" /\ supersampling = 6
  /\ side_ = 0 /\ rays = 0

-----------------------------------------------------------------------------
(* basic_image *)

\* pixels_.size(): the vector is constructed with width * height elements
pixels_size == img_w * img_h

\* basic_image::basic_image: if (width == 0 || height == 0) throw
image_ctor_throws(w, h) == w = 0 \/ h = 0

\* pixel_at: the test  x < width_ && x * y < pixels_.size()
pixel_at_accepts(x, y) == x < img_w /\ x * y < pixels_size

\* pixel_at: the subscript of pixels_[y * width_ + x]
pixel_index(x, y) == y * img_w + x

\* Coordinates pixel_at is called with: every pixel of the largest image and
\* one row and one column beyond it.
CoordsX == 0 .. MaxWidth + 1
CoordsY == 0 .. MaxHeight + 1

\* What an access outside the vector's storage can do.
OutOfBoundsOutcomes == {"foreign_memory", "crash"}

InitImage ==
  /\ PoolIdle
  /\ SampleIdle
  /\ ShadeIdle
  /\ PolicyIdle
  /\ SceneIdle
  /\ ChannelIdle
  /\ NormalIdle
  /\ RecurIdle
  /\ ThreadIdle
  /\ img_pc = "new"
  /\ img_w \in 0 .. MaxWidth
  /\ img_h \in 0 .. MaxHeight
  /\ img_access = NoAccess

\* basic_image(index width, index height)
ImageCtor ==
  /\ ImageFrame
  /\ img_pc = "new"
  /\ img_pc' = IF image_ctor_throws(img_w, img_h) THEN "logic_error"
               ELSE "live"
  /\ UNCHANGED <<img_w, img_h, img_access>>

\* pixel_at(x, y): the test passes and the subscript is inside the vector
PixelAtReturn ==
  /\ ImageFrame
  /\ img_pc = "live"
  /\ \E x \in CoordsX, y \in CoordsY :
       /\ pixel_at_accepts(x, y)
       /\ pixel_index(x, y) < pixels_size
       /\ img_access' = [x |-> x, y |-> y, outcome |-> "pixel",
                         index |-> pixel_index(x, y)]
  /\ UNCHANGED <<img_pc, img_w, img_h>>

\* pixel_at(x, y): the test passes and the subscript is past the end of the
\* vector: operator[] without a range check, undefined behaviour
PixelAtOutOfBounds ==
  /\ ImageFrame
  /\ img_pc = "live"
  /\ \E x \in CoordsX, y \in CoordsY, o \in OutOfBoundsOutcomes :
       /\ pixel_at_accepts(x, y)
       /\ pixel_index(x, y) >= pixels_size
       /\ img_access' = [x |-> x, y |-> y, outcome |-> o,
                         index |-> pixel_index(x, y)]
  /\ UNCHANGED <<img_pc, img_w, img_h>>

\* pixel_at(x, y): throw std::logic_error{"image::pixel_at: Invalid coordinates"}
PixelAtThrow ==
  /\ ImageFrame
  /\ img_pc = "live"
  /\ \E x \in CoordsX, y \in CoordsY :
       /\ ~pixel_at_accepts(x, y)
       /\ img_access' = [x |-> x, y |-> y, outcome |-> "logic_error",
                         index |-> 0]
  /\ UNCHANGED <<img_pc, img_w, img_h>>

NextImage ==
  \/ ImageCtor
  \/ PixelAtReturn
  \/ PixelAtOutOfBounds
  \/ PixelAtThrow

SpecImage == InitImage /\ [][NextImage]_vars

-----------------------------------------------------------------------------
(* Claims about basic_image *)

InBounds(x, y) == x < img_w /\ y < img_h

\* C21 as stated: pixel_at(x, y) returns the pixel at index y * width + x
\* when x < width and y < height and throws std::logic_error for every other
\* coordinate pair, never reading outside the pixel array; constructing an
\* image with width 0 or height 0 throws std::logic_error.
C21_PixelAtBoundsChecked ==
  /\ img_pc = "logic_error" <=> (img_pc # "new" /\ (img_w = 0 \/ img_h = 0))
  /\ img_access.outcome # "none" =>
       IF InBounds(img_access.x, img_access.y)
       THEN /\ img_access.outcome = "pixel"
            /\ img_access.index = img_access.y * img_w + img_access.x
       ELSE img_access.outcome = "logic_error"

\* C21, what the code does: the constructor part holds; pixel_at returns the
\* pixel at y * width + x for every in-bounds pair, throws exactly when
\* x >= width or x * y >= width * height, and subscripts the vector past its
\* end for the remaining pairs (x = 0 with y >= height among them).
C21_PixelAtProductTest ==
  /\ img_pc = "logic_error" <=> (img_pc # "new" /\ (img_w = 0 \/ img_h = 0))
  /\ img_access.outcome # "none" =>
       /\ InBounds(img_access.x, img_access.y) =>
            /\ img_access.outcome = "pixel"
            /\ img_access.index = img_access.y * img_w + img_access.x
       /\ img_access.outcome = "logic_error" <=>
            (img_access.x >= img_w \/
             img_access.x * img_access.y >= img_w * img_h)
       /\ img_access.outcome \in OutOfBoundsOutcomes <=>
            /\ img_access.x < img_w /\ img_access.y >= img_h
            /\ img_access.x * img_access.y < img_w * img_h
       /\ img_access.outcome \in OutOfBoundsOutcomes =>
            img_access.index >= img_w * img_h

\* Reached: pixel_at(0, height) on a live image reads past the pixel array.
C21_Witness ==
  /\ img_pc = "live"
  /\ img_access.x = 0 /\ img_access.y = img_h
  /\ img_access.outcome = "foreign_memory"
  /\ img_access.index = img_w * img_h

-----------------------------------------------------------------------------
(* simple_scene::intersect_solid *)

\* std::numeric_limits<double>::max(), the initial min_param: a value above
\* every ordinary parameter; Infinity is the double above it.
double_max == 1000
Infinity == double_max + 1

\* What solid.intersect(ray) can return: an ascending list of parameters,
\* empty for a miss.  sphere::intersect and plane::intersect return any
\* double greater than EPSILON, the largest finite double and +infinity
\* (a quotient that overflows) included.
Params == (1 .. MaxParam) \cup {double_max, Infinity}
IntersectionLists ==
  {<< >>} \cup {<<a>> : a \in Params}
          \cup {<<a, b>> : a \in 1 .. MaxParam, b \in {MaxParam}}

\* definition_.solids_: the solids in the order they were added
Scenes ==
  UNION {[1 .. n -> IntersectionLists] : n \in 0 .. MaxSolids}

\* if (param < min_param)
C22_Mut_closer(param, min_param) == param <= min_param
closer(param, min_param) == param < min_param

InitScene ==
  /\ PoolIdle
  /\ SampleIdle
  /\ ShadeIdle
  /\ PolicyIdle
  /\ ImageIdle
  /\ ChannelIdle
  /\ NormalIdle
  /\ RecurIdle
  /\ ThreadIdle
  /\ sc_pc = "idle"
  /\ sc_solids \in Scenes
  /\ sc_iter = 0
  /\ sc_min_param = 0
  /\ sc_result = NoIntersection

\* boost::optional<intersection> result; double min_param{max()}; iter = begin
IntersectCall ==
  /\ SceneFrame
  /\ sc_pc = "idle"
  /\ sc_pc' = "loop"
  /\ sc_iter' = 1
  /\ sc_min_param' = double_max
  /\ sc_result' = NoIntersection
  /\ UNCHANGED sc_solids

\* if (intersections.empty()) continue;
IntersectSkip ==
  /\ SceneFrame
  /\ sc_pc = "loop" /\ sc_iter <= Len(sc_solids)
  /\ sc_solids[sc_iter] = << >>
  /\ sc_iter' = sc_iter + 1
  /\ UNCHANGED <<sc_pc, sc_solids, sc_min_param, sc_result>>

\* param = intersections.front(); param < min_param: the solid is recorded
IntersectCloser ==
  /\ SceneFrame
  /\ sc_pc = "loop" /\ sc_iter <= Len(sc_solids)
  /\ sc_solids[sc_iter] # << >>
  /\ closer(Head(sc_solids[sc_iter]), sc_min_param)
  /\ sc_min_param' = Head(sc_solids[sc_iter])
  /\ sc_result' = [hit |-> TRUE, param |-> Head(sc_solids[sc_iter]),
                   solid |-> sc_iter]
  /\ sc_iter' = sc_iter + 1
  /\ UNCHANGED <<sc_pc, sc_solids>>

\* param = intersections.front(); !(param < min_param): next solid
IntersectFarther ==
  /\ SceneFrame
  /\ sc_pc = "loop" /\ sc_iter <= Len(sc_solids)
  /\ sc_solids[sc_iter] # << >>
  /\ ~closer(Head(sc_solids[sc_iter]), sc_min_param)
  /\ sc_iter' = sc_iter + 1
  /\ UNCHANGED <<sc_pc, sc_solids, sc_min_param, sc_result>>

\* iter == end: return result
IntersectReturn ==
  /\ SceneFrame
  /\ sc_pc = "loop" /\ sc_iter > Len(sc_solids)
  /\ sc_pc' = "done"
  /\ UNCHANGED <<sc_solids, sc_iter, sc_min_param, sc_result>>

NextScene ==
  \/ IntersectCall
  \/ IntersectSkip
  \/ IntersectCloser
  \/ IntersectFarther
  \/ IntersectReturn

SpecScene == InitScene /\ [][NextScene]_vars

-----------------------------------------------------------------------------
(* Claims about intersect_solid *)

\* The solids the ray intersects, and those it intersects below a bound.
Intersected == {i \in 1 .. Len(sc_solids) : sc_solids[i] # << >>}
IntersectedBelow(bound) ==
  {i \in Intersected : Head(sc_solids[i]) < bound}

\* The first solid, among those of `among`, whose smallest parameter is the
\* minimum over `among`.
Closest(among) ==
  CHOOSE i \in among :
    \A j \in among :
      \/ Head(sc_solids[i]) < Head(sc_solids[j])
      \/ Head(sc_solids[i]) = Head(sc_solids[j]) /\ i <= j

\* C22 as stated: intersect_solid returns none iff no solid is intersected
\* by the ray; otherwise it returns the minimum, over all solids, of each
\* solid's smallest parameter, with the first solid that attains it.
C22_ClosestOfAll ==
  sc_pc = "done" =>
    IF Intersected = {} THEN sc_result = NoIntersection
    ELSE /\ sc_result.hit
         /\ sc_result.solid = Closest(Intersected)
         /\ sc_result.param = Head(sc_solids[Closest(Intersected)])

\* C22, what the code does: only solids whose smallest parameter is below
\* the largest finite double compete; none is returned iff there is no such
\* solid, a solid hit at the largest finite double or at infinity included;
\* otherwise the minimum over the competing solids is returned with the
\* first solid that attains it.
C22_ClosestBelowMax ==
  sc_pc = "done" =>
    IF IntersectedBelow(double_max) = {} THEN sc_result = NoIntersection
    ELSE /\ sc_result.hit
         /\ sc_result.solid = Closest(IntersectedBelow(double_max))
         /\ sc_result.param =
              Head(sc_solids[Closest(IntersectedBelow(double_max))])
         /\ sc_result.param = sc_min_param

\* Reached: the only solid the ray intersects is hit at the largest finite
\* double, and intersect_solid has returned none.
C22_Witness ==
  /\ sc_pc = "done"
  /\ Len(sc_solids) = 2
  /\ sc_solids[1] = << >> /\ sc_solids[2] = <<double_max>>
  /\ sc_result = NoIntersection

-----------------------------------------------------------------------------
(* channel *)

\* A double is a pair <<n, d>>: n/d for d > 0, +infinity for <<1, 0>>,
\* -infinity for <<-1, 0>> and NaN for <<0, 0>>.
NaN == <<0, 0>>
Double(n, d) ==
  IF d = 0 THEN <<IF n > 0 THEN 1 ELSE IF n < 0 THEN -1 ELSE 0, 0>>
  ELSE Rat(n, d)
\* a < b on doubles: false whenever an operand is NaN
DLt(a, b) == a[1] * b[2] < b[1] * a[2]
DAdd(a, b) == Double(a[1] * b[2] + b[1] * a[2], a[2] * b[2])
DSub(a, b) == Double(a[1] * b[2] - b[1] * a[2], a[2] * b[2])
DMul(a, b) == Double(a[1] * b[1], a[2] * b[2])
DDiv(a, b) == Double(a[1] * b[2], a[2] * b[1])

\* channel::MIN, channel::MAX
MIN == <<0, 1>>
MAX == <<1, 1>>

\* std::min(x, upper) is upper < x ? upper : x
\* std::max(m, lower) is m < lower ? lower : m
std_min(a, b) == IF DLt(b, a) THEN b ELSE a
std_max(a, b) == IF DLt(a, b) THEN b ELSE a

\* clamp(x, lower, upper): std::max(std::min(x, upper), lower)
C23_Mut_clamp(x, lower, upper) == std_max(x, lower)
clamp(x, lower, upper) == std_max(std_min(x, upper), lower)

\* The doubles a channel is constructed from or assigned.
ChannelArgs ==
  {<<-1, 5>>, <<0, 1>>, <<3, 10>>, <<2, 5>>, <<4, 5>>, <<6, 5>>}
\* The right operands of +=, -=, *= and /=: channels made of those doubles
Operands == {clamp(d, MIN, MAX) : d \in ChannelArgs}

InitChannel ==
  /\ PoolIdle
  /\ SampleIdle
  /\ ShadeIdle
  /\ PolicyIdle
  /\ ImageIdle
  /\ SceneIdle
  /\ NormalIdle
  /\ RecurIdle
  /\ ThreadIdle
  /\ ch_pc = "new"
  /\ ch_value = <<0, 1>>
  /\ ch_ops = 0
  /\ ch_last = NoOp

\* channel c;
ChannelDefault ==
  /\ ChannelFrame
  /\ ch_pc = "new"
  /\ ch_pc' = "live"
  /\ ch_value' = <<0, 1>>
  /\ ch_last' = [op |-> "default", before |-> ch_value, arg |-> <<0, 1>>]
  /\ UNCHANGED ch_ops

\* channel::channel(double value)
ChannelCtor ==
  /\ ChannelFrame
  /\ ch_pc = "new"
  /\ ch_pc' = "live"
  /\ \E d \in ChannelArgs :
       /\ ch_value' = clamp(d, MIN, MAX)
       /\ ch_last' = [op |-> "ctor", before |-> ch_value, arg |-> d]
  /\ UNCHANGED ch_ops

\* channel::operator = (double d): set(d)
ChannelAssign ==
  /\ ChannelFrame
  /\ ch_pc = "live" /\ ch_ops < MaxChannelOps
  /\ \E d \in ChannelArgs :
       /\ ch_value' = clamp(d, MIN, MAX)
       /\ ch_last' = [op |-> "assign", before |-> ch_value, arg |-> d]
  /\ ch_ops' = ch_ops + 1
  /\ UNCHANGED ch_pc

\* channel::operator += (channel other): set(value_ + other.value_)
ChannelAdd ==
  /\ ChannelFrame
  /\ ch_pc = "live" /\ ch_ops < MaxChannelOps
  /\ \E other \in Operands :
       /\ ch_value' = clamp(DAdd(ch_value, other), MIN, MAX)
       /\ ch_last' = [op |-> "add", before |-> ch_value, arg |-> other]
  /\ ch_ops' = ch_ops + 1
  /\ UNCHANGED ch_pc

\* channel::operator -= (channel other): set(value_ - other.value_)
ChannelSub ==
  /\ ChannelFrame
  /\ ch_pc = "live" /\ ch_ops < MaxChannelOps
  /\ \E other \in Operands :
       /\ ch_value' = clamp(DSub(ch_value, other), MIN, MAX)
       /\ ch_last' = [op |-> "sub", before |-> ch_value, arg |-> other]
  /\ ch_ops' = ch_ops + 1
  /\ UNCHANGED ch_pc

\* channel::operator *= (channel other): set(value_ * other.value_)
ChannelMul ==
  /\ ChannelFrame
  /\ ch_pc = "live" /\ ch_ops < MaxChannelOps
  /\ \E other \in Operands :
       /\ ch_value' = clamp(DMul(ch_value, other), MIN, MAX)
       /\ ch_last' = [op |-> "mul", before |-> ch_value, arg |-> other]
  /\ ch_ops' = ch_ops + 1
  /\ UNCHANGED ch_pc

\* channel::operator /= (channel other): set(value_ / other.value_)
ChannelDiv ==
  /\ ChannelFrame
  /\ ch_pc = "live" /\ ch_ops < MaxChannelOps
  /\ \E other \in Operands :
       /\ ch_value' = clamp(DDiv(ch_value, other), MIN, MAX)
       /\ ch_last' = [op |-> "div", before |-> ch_value, arg |-> other]
  /\ ch_ops' = ch_ops + 1
  /\ UNCHANGED ch_pc

NextChannel ==
  \/ ChannelDefault
  \/ ChannelCtor
  \/ ChannelAssign
  \/ ChannelAdd
  \/ ChannelSub
  \/ ChannelMul
  \/ ChannelDiv

SpecChannel == InitChannel /\ [][NextChannel]_vars

-----------------------------------------------------------------------------
(* Claims about channel *)

\* v is a number within [0, 1]
InUnit(v) == v[2] > 0 /\ 0 <= v[1] /\ v[1] <= v[2]

\* The exact result of the operation recorded in ch_last, for operands that
\* are numbers and a divisor that is not 0.
ExactResult ==
  CASE ch_last.op \in {"ctor", "assign"} -> ch_last.arg
    [] ch_last.op = "default" -> <<0, 1>>
    [] ch_last.op = "add" -> RAdd(ch_last.before, ch_last.arg)
    [] ch_last.op = "sub" ->
         RAdd(ch_last.before, <<-ch_last.arg[1], ch_last.arg[2]>>)
    [] ch_last.op = "mul" -> RMul(ch_last.before, ch_last.arg)
    [] ch_last.op = "div" ->
         Rat(ch_last.before[1] * ch_last.arg[2],
             ch_last.before[2] * ch_last.arg[1])

\* x clamped into [0, 1]
Clamped(x) == IF RLt(x, R0) THEN R0 ELSE IF RLt(R1, x) THEN R1 ELSE x

\* The operation recorded in ch_last has an exact result: it is not a
\* division by 0 and its left operand is a number.
HasExactResult ==
  /\ ch_last.before # NaN
  /\ ch_last.op = "div" => ch_last.arg[1] # 0

\* C23 as stated: after any sequence of construction, assignment from a
\* double, +=, -=, *= and /= the channel value is within [0, 1]; each
\* operation stores its exact result clamped into [0, 1], and a
\* default-constructed channel is 0.
C23_AlwaysWithinUnit ==
  ch_pc = "live" =>
    /\ InUnit(ch_value)
    /\ ch_last.op = "default" => ch_value = <<0, 1>>
    /\ HasExactResult => ch_value = Clamped(ExactResult)

\* C23, what the code does: a default-constructed channel is 0; every
\* operation that has an exact result stores that result clamped into
\* [0, 1]; a positive value divided by 0 becomes 1; 0 divided by 0 stores
\* NaN, which the clamp passes through and every later arithmetic operation
\* keeps, so the value is within [0, 1] or NaN.
C23_WithinUnitOrNaN ==
  ch_pc = "live" =>
    /\ InUnit(ch_value) \/ ch_value = NaN
    /\ ch_last.op = "default" => ch_value = <<0, 1>>
    /\ HasExactResult => ch_value = Clamped(ExactResult)
    /\ (ch_last.op = "div" /\ ch_last.arg[1] = 0 /\ ch_last.before # NaN) =>
         ch_value = IF ch_last.before[1] = 0 THEN NaN ELSE <<1, 1>>
    /\ (ch_last.before = NaN /\ ch_last.op \in {"add", "sub", "mul", "div"})
         => ch_value = NaN

\* Reached: a channel of value 0 divided by a channel of value 0 holds NaN.
C23_Witness ==
  /\ ch_pc = "live"
  /\ ch_last.op = "div" /\ ch_last.before = <<0, 1>> /\ ch_last.arg = <<0, 1>>
  /\ ch_value = NaN

-----------------------------------------------------------------------------
(* Claims about the interior case of subpixel_sample *)

\* The cells of region (ox, oy, s) that hold a sample.
FilledIn(ox, oy, s) ==
  {c \in RegionCells(ox, oy, s) : samples_[c].weight > 0}

\* The per-channel minimum and maximum of the colours held in `cells`.
ChannelMin(cells) ==
  [i \in 1 .. 3 |->
     LET c == CHOOSE c \in cells :
                \A d \in cells : samples_[c].value[i] <= samples_[d].value[i]
     IN  samples_[c].value[i]]
ChannelMax(cells) ==
  [i \in 1 .. 3 |->
     LET c == CHOOSE c \in cells :
                \A d \in cells : samples_[c].value[i] >= samples_[d].value[i]
     IN  samples_[c].value[i]]

\* The four corner colours of region (ox, oy, s) are farther apart than 0.2.
CornersDiffer(ox, oy, s) ==
  LET cells == FilledIn(ox, oy, s)
      min == ChannelMin(cells)
      max == ChannelMax(cells)
  IN  (min[1] - max[1]) * (min[1] - max[1])
        + (min[2] - max[2]) * (min[2] - max[2])
        + (min[3] - max[3]) * (min[3] - max[3]) > 2 * 2

\* Each quadrant of region (ox, oy, s) holds exactly one sample, of weight
\* s * s / 4.
OnePerQuadrant(ox, oy, s) ==
  \A k \in 0 .. 3 :
    LET q == FilledIn(corner_x(ox, s, k), corner_y(oy, s, k), s \div 2)
    IN  /\ Cardinality(q) = 1
        /\ \A c \in q : samples_[c].weight = (s * s) \div 4

\* The activation on top of the stack has finished its corner loop.
AtDecision ==
  /\ s_pc = "running" /\ stack # << >>
  /\ Top.side > 1 /\ Top.pc = "corners" /\ Top.ci = 4

\* C24: when the corner loop of a region of side k > 1 has finished, each
\* quadrant holds one sample of weight k*k/4 and the four weights sum to
\* k*k; the region is then refined, by one call per quadrant with side k/2
\* in corner order, iff the distance between the per-channel minimum and
\* maximum of the four corner colours exceeds 0.2; otherwise the call
\* returns, and no ray is cast and no weight changes in that region from
\* then on.
C24_RefineIffCornersDiffer ==
  /\ [](AtDecision =>
          /\ OnePerQuadrant(Top.x, Top.y, Top.side)
          /\ total_weight(samples_, Top.x, Top.y, Top.side)
               = Top.side * Top.side)
  /\ [][AtDecision =>
          /\ samples_' = samples_ /\ rays' = rays
          /\ IF CornersDiffer(Top.x, Top.y, Top.side)
             THEN /\ Len(stack') = Len(stack)
                  /\ stack'[Len(stack)].pc = "recurse"
                  /\ stack'[Len(stack)].ci = 0
                  /\ accepted' = accepted
             ELSE /\ stack' = Pop
                  /\ accepted' = accepted \cup
                       {[x |-> Top.x, y |-> Top.y, side |-> Top.side]}]_vars
  /\ [](\A i \in 1 .. Len(stack) :
          stack[i].pc = "recurse" =>
            /\ stack[i].ci \in 0 .. 4
            /\ i < Len(stack) =>
                 /\ stack[i].ci >= 1
                 /\ stack[i + 1].side = stack[i].side \div 2
                 /\ stack[i + 1].x
                      = corner_x(stack[i].x, stack[i].side, stack[i].ci - 1)
                 /\ stack[i + 1].y
                      = corner_y(stack[i].y, stack[i].side, stack[i].ci - 1))
  /\ [][\A i \in 1 .. Len(stack) :
          (stack[i].pc = "recurse" /\ Len(stack') > i /\ Len(stack) = i) =>
            stack'[i].ci = stack[i].ci + 1]_vars
  /\ [](\A r \in accepted :
          /\ ~CornersDiffer(r.x, r.y, r.side)
          /\ OnePerQuadrant(r.x, r.y, r.side)
          /\ Cardinality(FilledIn(r.x, r.y, r.side)) = 4
          /\ total_weight(samples_, r.x, r.y, r.side) = r.side * r.side)

\* Reached: in a grid of side 8 a quadrant of side 4 has been accepted while
\* the grid itself and another quadrant were refined.
C24_Witness ==
  /\ s_pc = "done" /\ supersampling = 8
  /\ \E r \in accepted : r.side = 4
  /\ \E c \in Cells(8) : samples_[c].weight = 1

-----------------------------------------------------------------------------
(* scene::intersection::normal *)

\* Points of the unit sphere, in object coordinates
UnitPoints ==
  {<<1, 0, 0>>, <<-1, 0, 0>>, <<0, 1, 0>>, <<0, -1, 0>>, <<0, 0, 1>>,
   <<0, 0, -1>>}

\* sphere::normal_at: rp.point()
\* plane::normal_at: origin z > 0 ? -UnitZ : UnitZ
\* solid::normal_at of a solid that was not transformed (object_to_world_ is
\* the identity)
normal_at(i) ==
  IF i.shape = "sphere" THEN i.point
  ELSE IF i.origin_z > 0 THEN <<0, 0, -1>> ELSE <<0, 0, 1>>

\* scene::intersection::normal: the test  if (!normal_)
C25_Mut_normal_cached(i) == FALSE
normal_cached(i) == i.normal_ # NoNormal

\* scene::intersection::normal(): <<the intersection after the call, the
\* value returned, the number of normal_at evaluations made>>
intersection_normal(i) ==
  IF normal_cached(i) THEN <<i, i.normal_, 0>>
  ELSE <<[i EXCEPT !.normal_ = normal_at(i)], normal_at(i), 1>>

\* do_shade has found the intersection i (scene.intersect_solid builds a new
\* instance for every query: result = scene::intersection({ray, param}, solid))
InitNormal ==
  /\ PoolIdle
  /\ SampleIdle
  /\ ShadeIdle
  /\ PolicyIdle
  /\ ImageIdle
  /\ SceneIdle
  /\ ChannelIdle
  /\ RecurIdle
  /\ ThreadIdle
  /\ nm_pc = "lights"
  /\ nm_i \in [shape : {"sphere", "plane"}, point : UnitPoints,
               origin_z : {-1, 0, 1}, normal_ : {NoNormal}]
  /\ nm_lights \in 0 .. MaxLights
  /\ nm_li = 1
  /\ nm_evals = 0
  /\ nm_calls = 0
  /\ nm_rets = {}

\* do_shade, light loop: an obstacle blocks the light: continue
NormalLightOccluded ==
  /\ NormalFrame
  /\ nm_pc = "lights" /\ nm_li <= nm_lights
  /\ \E shadow \in ShadowRays : occluded(shadow.obstacle_d2, shadow.light_d2)
  /\ nm_li' = nm_li + 1
  /\ UNCHANGED <<nm_pc, nm_i, nm_lights, nm_evals, nm_calls, nm_rets>>

\* do_shade, light loop: blend_light(..., i->normal(), ...)
NormalLightBlended ==
  /\ NormalFrame
  /\ nm_pc = "lights" /\ nm_li <= nm_lights
  /\ \E shadow \in ShadowRays : ~occluded(shadow.obstacle_d2, shadow.light_d2)
  /\ LET r == intersection_normal(nm_i)
     IN  /\ nm_i' = r[1]
         /\ nm_rets' = nm_rets \cup {r[2]}
         /\ nm_evals' = nm_evals + r[3]
  /\ nm_calls' = nm_calls + 1
  /\ nm_li' = nm_li + 1
  /\ UNCHANGED <<nm_pc, nm_lights>>

\* do_shade: reflect(ray.direction(), i->normal()); no later use of normal()
NormalReflect ==
  /\ NormalFrame
  /\ nm_pc = "lights" /\ nm_li > nm_lights
  /\ LET r == intersection_normal(nm_i)
     IN  /\ nm_i' = r[1]
         /\ nm_rets' = nm_rets \cup {r[2]}
         /\ nm_evals' = nm_evals + r[3]
  /\ nm_calls' = nm_calls + 1
  /\ nm_pc' = "done"
  /\ UNCHANGED <<nm_lights, nm_li>>

NextNormal ==
  \/ NormalLightOccluded
  \/ NormalLightBlended
  \/ NormalReflect

SpecNormal == InitNormal /\ [][NextNormal]_vars

-----------------------------------------------------------------------------
(* Claims about the intersection's normal *)

\* C25: per intersection instance normal_at is evaluated at most once, by
\* the first normal() call; the value is stored, and every normal() call on
\* that instance (one per unoccluded light, one for the reflection) returns
\* that same value.
C25_NormalComputedOnce ==
  nm_pc \in {"lights", "done"} =>
    /\ nm_evals = IF nm_calls > 0 THEN 1 ELSE 0
    /\ nm_i.normal_ = IF nm_calls > 0 THEN normal_at(nm_i) ELSE NoNormal
    /\ nm_rets = IF nm_calls > 0 THEN {normal_at(nm_i)} ELSE {}
    /\ nm_calls <= nm_li
    /\ nm_pc = "done" => nm_calls >= 1 /\ nm_calls <= nm_lights + 1

\* Reached: the intersection has answered three normal() calls, two for
\* unoccluded lights and one for the reflection, with one evaluation of
\* normal_at.
C25_Witness ==
  /\ nm_pc = "done" /\ nm_lights = 2
  /\ nm_calls = 3 /\ nm_evals = 1
  /\ nm_i.shape = "plane" /\ nm_i.normal_ = <<0, 0, -1>>

\* The number of jobs: ceil(total_pixels / job_size)
NumJobs == (total_pixels + job_size - 1) \div job_size

\* The handed-out jobs whose ordinal (the fetch-and-add result) is k
HandedOrdinal(k) ==
  {i \in 1 .. Len(handed) : handed[i].start = job_start(k)}

\* C26: with run() called once on a pool of T threads, the job counter never
\* exceeds ceil(total_pixels / job_size) + T - 1, and every ordinal below
\* both the counter and the number of jobs has been returned by exactly one
\* fetch-and-add, ordinals not yet reached by none.
C26_BoundedOvershoot ==
  pool \in {"live", "destroyed"} =>
    /\ current_job_index_ <= NumJobs + num_threads_ - 1
    /\ current_job_index_
         <= NumJobs + Cardinality({t \in Workers : wpc[t] # "none"})
    /\ \A k \in 0 .. NumJobs - 1 :
         Cardinality(HandedOrdinal(k)) =
           IF k < current_job_index_ THEN 1 ELSE 0
    /\ Len(handed) = Min(current_job_index_, NumJobs)

\* Reached: both workers of a two-thread pool passed the first test of
\* get_job before the last job was claimed, and the counter stands at
\* ceil(total_pixels / job_size) + T - 1.
C26_Witness ==
  /\ pool = "live" /\ num_threads_ = 2
  /\ current_job_index_ = NumJobs + num_threads_ - 1
  /\ total_pixels % job_size # 0

\* percent_complete() in the next state
percent_complete_next ==
  LET total == total_pixels'
      done_ == current_job_index_' * job_size
  IN  IF done_ <= total THEN <<done_, total>> ELSE <<1, 1>>

\* C27: the job counter never decreases; once done() is true it is true in
\* every later state, and percent_complete() never decreases from one state
\* to the next, so a caller polling done() and percent_complete(), as main
\* does, sees non-decreasing progress and leaves its loop for good.
C27_ProgressMonotone ==
  /\ [][current_job_index_' >= current_job_index_]_vars
  /\ [][(pool = "live" /\ done) => done']_vars
  /\ [][pool = "live" =>
          percent_complete[1] * percent_complete_next[2]
            <= percent_complete_next[1] * percent_complete[2]]_vars
  /\ [](pool = "live" =>
          (done <=> percent_complete[1] = percent_complete[2]))

\* Reached: run() has returned, the caller is polling, done() holds with the
\* counter past the last job, and a worker is still inside its pixel loop.
C27_Witness ==
  /\ pool = "live" /\ ran /\ mainpc = "idle" /\ finish_calls = 0
  /\ done /\ current_job_index_ > NumJobs
  /\ \E t \in Workers : wpc[t] = "loop"

\* The activation on top of the stack was entered by recursion and has not
\* run yet.
EnteredByRecursion ==
  /\ s_pc = "running" /\ Len(stack) >= 2
  /\ Top.pc = "corners" /\ Top.ci = 0

\* C28: the assertions of the sampler hold at every recursion level:
\* pixel_samples::add is applied only to a cell of weight 0, a filled cell's
\* weight is never set to 0, a region entered by recursion holds exactly one
\* filled cell on entry, and after the corner loop or the leaf step of a
\* region of side k the weights inside it sum to k*k.
C28_SamplerAssertionsHold ==
  /\ [](asserts_ok)
  /\ [][s_pc = "running" =>
          \A c \in DOMAIN casts :
            casts'[c] > casts[c] =>
              /\ samples_[c].weight = 0
              /\ samples_'[c].weight > 0]_vars
  /\ [][s_pc = "running" =>
          \A c \in DOMAIN samples_ :
            samples_[c].weight > 0 => samples_'[c].weight > 0]_vars
  /\ [](EnteredByRecursion =>
          Cardinality(FilledIn(Top.x, Top.y, Top.side)) = 1)
  /\ [](AtDecision =>
          total_weight(samples_, Top.x, Top.y, Top.side)
            = Top.side * Top.side)
  /\ [][(s_pc = "running" /\ stack # << >> /\ Top.side = 1) =>
          samples_'[<<Top.x, Top.y>>].weight = 1]_vars

\* Reached: three levels deep, a region of side 2 has just been entered by
\* recursion, holding the one sample its parent gave it, which lies in a
\* cell other than its first.
C28_Witness ==
  /\ EnteredByRecursion /\ Len(stack) = 3 /\ Top.side = 2
  /\ asserts_ok
  /\ samples_[<<Top.x, Top.y>>].weight = 0
  /\ samples_[<<Top.x + 1, Top.y + 1>>].weight = 4

-----------------------------------------------------------------------------
(* The depth of the shading recursion *)

\* `unsigned depth`: the largest value of the type.  The model's unsigned is
\* two bits wide, so that a policy can hold the largest value as max_depth.
UINT_MAX == 3

\* unsigned arithmetic: depth + 1
unsigned_succ(depth) == (depth + 1) % (UINT_MAX + 1)

\* material::reflectance() of the solids a ray can hit
Reflectances == {m.reflectance : m \in Materials}

\* The recursion is followed for this many do_shade calls.
ChainCap == UINT_MAX + 3

\* shade(scene, ray, policy, prng): do_shade(scene, ray, policy, 0, 1.0, prng)
\* under a policy whose max_depth is any unsigned value.
InitRecur ==
  /\ PoolIdle
  /\ SampleIdle
  /\ PolicyIdle
  /\ ImageIdle
  /\ SceneIdle
  /\ ChannelIdle
  /\ NormalIdle
  /\ ThreadIdle
  /\ sh_pc = "idle"
  /\ policy \in [background : {Background}, max_depth : 0 .. UINT_MAX,
                 min_importance : MinImportances]
  /\ num_lights = 0
  /\ sh_entry = [via |-> "none", depth |-> 0, importance |-> R1]
  /\ sh_call = [depth |-> 0, importance |-> R1]
  /\ sh_stack = << >>
  /\ sh_ret = Hdr(R0, R0, R0)
  /\ sh_err = "none"
  /\ sh_queries = 0
  /\ sh_chain = << >>
  /\ sh_light = NoLight
  /\ sh_last = NoFrame
  /\ rc_pc = "call"
  /\ rc_call = [depth |-> 0, importance |-> R1]
  /\ rc_chain = <<[depth |-> 0, importance |-> R1, did |-> "entered"]>>
  /\ rc_pending = 0
  /\ rc_primary = 0

\* what the do_shade call being entered did
Did(what) == [rc_chain EXCEPT ![Len(rc_chain)].did = what]

\* do_shade: if (!should_continue(depth, importance, policy))
\*             return policy.background;
RecurStop ==
  /\ RecurFrame
  /\ rc_pc = "call"
  /\ ~importance_out_of_range(rc_call.importance)
  /\ ~should_continue(rc_call.depth, rc_call.importance)
  /\ rc_chain' = Did("stop")
  /\ rc_pc' = "return"
  /\ UNCHANGED <<policy, rc_call, rc_pending, rc_primary>>

\* do_shade: scene.intersect_solid(ray) finds nothing
RecurMiss ==
  /\ RecurFrame
  /\ rc_pc = "call"
  /\ ~importance_out_of_range(rc_call.importance)
  /\ should_continue(rc_call.depth, rc_call.importance)
  /\ rc_primary' = rc_primary + 1
  /\ rc_chain' = Did("miss")
  /\ rc_pc' = "return"
  /\ UNCHANGED <<policy, rc_call, rc_pending>>

\* do_shade: scene.intersect_solid(ray) hits a solid; after the loop over the
\* lights, do_shade(scene, reflected, policy, depth + 1,
\*                  reflection_importance * importance, prng)
RecurHit ==
  /\ RecurFrame
  /\ rc_pc = "call"
  /\ Len(rc_chain) < ChainCap
  /\ ~importance_out_of_range(rc_call.importance)
  /\ should_continue(rc_call.depth, rc_call.importance)
  /\ rc_primary' = rc_primary + 1
  /\ \E reflectance \in Reflectances :
       rc_call' = [depth |-> unsigned_succ(rc_call.depth),
                   importance |-> RMul(reflectance, rc_call.importance)]
  /\ rc_chain' = Append(Did("hit"),
                        [depth |-> rc_call'.depth,
                         importance |-> rc_call'.importance,
                         did |-> "entered"])
  /\ rc_pending' = rc_pending + 1
  /\ UNCHANGED <<policy, rc_pc>>

\* do_shade: the recursive call has returned;
\* result = blend_reflection(...); return result;
RecurReturn ==
  /\ RecurFrame
  /\ rc_pc = "return" /\ rc_pending > 0
  /\ rc_pending' = rc_pending - 1
  /\ UNCHANGED <<policy, rc_pc, rc_call, rc_chain, rc_primary>>

\* shade returns
RecurDone ==
  /\ RecurFrame
  /\ rc_pc = "return" /\ rc_pending = 0
  /\ rc_pc' = "done"
  /\ UNCHANGED <<policy, rc_call, rc_chain, rc_pending, rc_primary>>

NextRecur ==
  \/ RecurStop
  \/ RecurMiss
  \/ RecurHit
  \/ RecurReturn
  \/ RecurDone

SpecRecur == InitRecur /\ [][NextRecur]_vars

\* How many steps a shade call whose depth cannot wrap around has left at
\* most: two per do_shade call still possible, one per pending activation.
StepsLeft ==
  IF rc_pc \in {"idle", "done"} THEN 0
  ELSE IF rc_pc = "return" THEN rc_pending + 1
  ELSE 2 * (policy.max_depth + 1 - rc_call.depth) + rc_pending + 2

\* The do_shade calls are the chain started by shade: each call but the last
\* hit a solid, and a call stops exactly when should_continue is false.
ChainEndsAtStopOrMiss ==
  /\ \A k \in 1 .. Len(rc_chain) - 1 : rc_chain[k].did = "hit"
  /\ \A k \in 1 .. Len(rc_chain) :
       /\ rc_chain[k].did = "stop" <=>
            /\ rc_chain[k].did # "entered"
            /\ ~should_continue(rc_chain[k].depth, rc_chain[k].importance)
       /\ rc_chain[k].did \in {"stop", "miss"} => rc_pc \in {"return", "done"}

\* C29, as the specification states it: a top-level shade call never executes
\* do_shade with a depth greater than max_depth + 1, performs at most
\* max_depth + 1 primary intersect_solid queries (so at most max_depth + 2
\* do_shade calls, which is what makes it terminate), and its chain ends as
\* soon as the importance falls below min_importance or a ray misses.
C29_BoundedRecursion ==
  rc_pc # "idle" =>
    /\ \A k \in 1 .. Len(rc_chain) : rc_chain[k].depth <= policy.max_depth + 1
    /\ rc_primary <= policy.max_depth + 1
    /\ Len(rc_chain) <= policy.max_depth + 2
    /\ ChainEndsAtStopOrMiss

\* C29, what the code does: under a policy whose max_depth is less than the
\* largest unsigned value the bounds above hold and every step brings the
\* call nearer to its end; under max_depth = UINT_MAX the depth test never
\* fails (depth + 1 wraps around to 0), so that only a miss or an importance
\* below min_importance ends the chain.
C29_BoundedUnlessDepthWraps ==
  /\ [](rc_pc # "idle" => ChainEndsAtStopOrMiss)
  /\ []((rc_pc # "idle" /\ policy.max_depth < UINT_MAX) =>
         /\ \A k \in 1 .. Len(rc_chain) :
              /\ rc_chain[k].depth = k - 1
              /\ rc_chain[k].depth <= policy.max_depth + 1
         /\ rc_primary <= policy.max_depth + 1
         /\ Len(rc_chain) <= policy.max_depth + 2
         /\ StepsLeft >= 0)
  /\ [][policy.max_depth < UINT_MAX => StepsLeft' < StepsLeft]_vars
  /\ []((rc_pc # "idle" /\ policy.max_depth = UINT_MAX) =>
         \A k \in 1 .. Len(rc_chain) :
           rc_chain[k].did = "stop" =>
             RLt(rc_chain[k].importance, policy.min_importance))

\* Every ray hits a solid of reflectance 1 under min_importance = 0 and
\* max_depth = 1: the third do_shade call, at depth 2, has stopped, and shade
\* has returned after two primary queries.
C29_Witness ==
  /\ rc_pc = "done"
  /\ policy.max_depth = 1 /\ policy.min_importance = R0
  /\ Len(rc_chain) = 3
  /\ \A k \in 1 .. 3 : rc_chain[k].importance = R1
  /\ rc_chain[3].did = "stop"
  /\ rc_primary = 2

\* Under max_depth = UINT_MAX the call at depth 0 that follows the call at
\* depth UINT_MAX queries the scene again.
C29_DepthWrapped ==
  /\ policy.max_depth = UINT_MAX
  /\ rc_primary > UINT_MAX + 1
  /\ rc_chain[Len(rc_chain)].depth = 1

-----------------------------------------------------------------------------
(* The thread-local sample grid across sample() calls *)

\* policy.supersampling and the pixels of the calls that are followed.  With
\* a grid of side 1 or 2 subpixel_sample visits every cell once in its leaf
\* or its corner loop, and once more if it refines.
GridSides == {1, 2}
GridPixels == {0, 1}

\* std::vector<sample>: clear() and resize(n), which appends
\* value-initialised elements up to size n or drops the elements beyond n
C30_Mut_vector_clear(v) == v
vector_clear(v) == << >>
vector_resize(v, n) ==
  [i \in 1 .. n |-> IF i <= Len(v) THEN v[i] ELSE DefaultSample]

\* pixel_samples::reset
pixel_samples_reset(g, pixel, side) ==
  [samples_ |-> vector_resize(vector_clear(g.samples_), side * side),
   region_ |-> pixel,
   side_ |-> side]

\* std::accumulate over the grid of the cells' weights
accumulate_weight(g) ==
  LET RECURSIVE Sum(_)
      Sum(i) == IF i = 0 THEN 0 ELSE g.samples_[i].weight + Sum(i - 1)
  IN  Sum(Len(g.samples_))

\* subpixel_sample on one cell: the sample get_any finds there gets the
\* weight, otherwise sample_one casts a ray of this call and adds its sample
VisitCell(t, cell, k, weight) ==
  IF cell.weight > 0 THEN [cell EXCEPT !.weight = weight]
  ELSE [value |-> [thread |-> t, call |-> tl_call[t].n,
                   pixel |-> tl_call[t].pixel, cell |-> k],
        weight |-> weight]

InitThread ==
  /\ PoolIdle
  /\ SampleIdle
  /\ ShadeIdle
  /\ PolicyIdle
  /\ ImageIdle
  /\ SceneIdle
  /\ ChannelIdle
  /\ NormalIdle
  /\ RecurIdle
  /\ ThreadIdle

\* sample(): static thread_local pixel_samples samples;
\*           samples.reset(pixel, policy.supersampling);
GridSample(t) ==
  /\ ThreadFrame
  /\ tl_pc[t] = "idle"
  /\ tl_call[t].n < MaxSampleCalls
  /\ \E pixel \in GridPixels, side \in GridSides :
       /\ tl_call' = [tl_call EXCEPT ![t] =
                        [pixel |-> pixel, supersampling |-> side,
                         n |-> @.n + 1, previous |-> tl_samples[t].side_]]
       /\ tl_samples' = [tl_samples EXCEPT ![t] =
                           pixel_samples_reset(@, pixel, side)]
       /\ tl_asserts' = (tl_asserts /\ is_power2(side))
  /\ tl_pc' = [tl_pc EXCEPT ![t] = "loop"]
  /\ tl_k' = [tl_k EXCEPT ![t] = 1]
  /\ tl_result' = [tl_result EXCEPT ![t] = NoResult]

\* subpixel_sample: the leaf of a grid of side 1, or one iteration of the
\* corner loop of a grid of side 2 (weight and weight_4 are both 1)
GridCorner(t) ==
  /\ ThreadFrame
  /\ tl_pc[t] = "loop"
  /\ tl_k[t] <= Len(tl_samples[t].samples_)
  /\ tl_samples' = [tl_samples EXCEPT ![t].samples_[tl_k[t]] =
                      VisitCell(t, @, tl_k[t], 1)]
  /\ tl_k' = [tl_k EXCEPT ![t] = @ + 1]
  /\ UNCHANGED <<tl_pc, tl_call, tl_result, tl_asserts>>

\* subpixel_sample: assert(pixel.total_weight() == weight); the leaf returns,
\* or the four corners are close enough
GridAccept(t) ==
  /\ ThreadFrame
  /\ tl_pc[t] = "loop"
  /\ tl_k[t] > Len(tl_samples[t].samples_)
  /\ tl_asserts' =
       (tl_asserts /\ accumulate_weight(tl_samples[t]) =
                        tl_samples[t].side_ * tl_samples[t].side_)
  /\ tl_pc' = [tl_pc EXCEPT ![t] = "sum"]
  /\ UNCHANGED <<tl_samples, tl_call, tl_k, tl_result>>

\* subpixel_sample: dist > max_distance; the recursive calls on the four
\* corners, each a leaf
GridRefine(t) ==
  /\ ThreadFrame
  /\ tl_pc[t] = "loop"
  /\ tl_samples[t].side_ > 1
  /\ tl_k[t] > Len(tl_samples[t].samples_)
  /\ tl_samples' = [tl_samples EXCEPT ![t].samples_ =
                      [i \in 1 .. Len(@) |-> VisitCell(t, @[i], i, 1)]]
  /\ tl_asserts' =
       (tl_asserts /\ accumulate_weight(tl_samples[t]) =
                        tl_samples[t].side_ * tl_samples[t].side_)
  /\ tl_pc' = [tl_pc EXCEPT ![t] = "sum"]
  /\ UNCHANGED <<tl_call, tl_k, tl_result>>

\* sample(): the assertion on the accumulated weight; the weighted sum of the
\* cells divided by samples.size()
GridReturn(t) ==
  /\ ThreadFrame
  /\ tl_pc[t] = "sum"
  /\ tl_asserts' =
       (tl_asserts /\ accumulate_weight(tl_samples[t]) =
                        Len(tl_samples[t].samples_))
  /\ tl_result' = [tl_result EXCEPT ![t] =
       [call |-> tl_call[t].n,
        pixel |-> tl_call[t].pixel,
        terms |-> {tl_samples[t].samples_[i] :
                     i \in {j \in 1 .. Len(tl_samples[t].samples_) :
                              tl_samples[t].samples_[j].weight > 0}},
        size |-> Len(tl_samples[t].samples_)]]
  /\ tl_pc' = [tl_pc EXCEPT ![t] = "idle"]
  /\ UNCHANGED <<tl_samples, tl_call, tl_k>>

NextThread ==
  \E t \in Workers :
    \/ GridSample(t)
    \/ GridCorner(t)
    \/ GridAccept(t)
    \/ GridRefine(t)
    \/ GridReturn(t)

SpecThread == InitThread /\ [][NextThread]_vars

\* Thread t is at the start of a sample() call: reset has run and
\* subpixel_sample has visited no cell yet.
AtStart(t) == tl_pc[t] = "loop" /\ tl_k[t] = 1

\* The ray that produced a sample was cast by thread t in its call n for the
\* pixel.
CastBy(value, t, n, pixel) ==
  value.thread = t /\ value.call = n /\ value.pixel = pixel

\* C30: at the start of every sample() call the thread's grid has S*S cells,
\* all of weight 0, and the side and region of the current pixel, also when
\* S differs from the previous call; every sample the grid holds during a
\* call, and every term of the sum the call returns, comes from a ray cast by
\* this thread in this call for this pixel; no assertion fails; and a step of
\* one thread leaves the grids of the other threads unchanged.
C30_NoCarryOver ==
  /\ [](\A t \in Workers : AtStart(t) =>
          /\ Len(tl_samples[t].samples_) =
               tl_call[t].supersampling * tl_call[t].supersampling
          /\ \A i \in 1 .. Len(tl_samples[t].samples_) :
               tl_samples[t].samples_[i].weight = 0
          /\ tl_samples[t].side_ = tl_call[t].supersampling
          /\ tl_samples[t].region_ = tl_call[t].pixel)
  /\ [](\A t \in Workers : tl_pc[t] # "idle" =>
          \A i \in 1 .. Len(tl_samples[t].samples_) :
            tl_samples[t].samples_[i].weight > 0 =>
              CastBy(tl_samples[t].samples_[i].value, t, tl_call[t].n,
                     tl_call[t].pixel))
  /\ [](\A t \in Workers : tl_result[t] # NoResult =>
          /\ Cardinality(tl_result[t].terms) = tl_result[t].size
          /\ \A term \in tl_result[t].terms :
               /\ term.weight = 1
               /\ CastBy(term.value, t, tl_result[t].call,
                         tl_result[t].pixel))
  /\ [](tl_asserts)
  /\ [][\A t \in Workers :
          tl_samples'[t] # tl_samples[t] =>
            /\ tl_pc[t] # "sum"
            /\ \A u \in Workers \ {t} :
                 /\ tl_samples'[u] = tl_samples[u]
                 /\ tl_pc'[u] = tl_pc[u]]_vars

\* A thread whose previous call filled a grid of side 2 is at the start of
\* its next call with a grid of side 1, while another thread is in the
\* middle of its corner loop.
C30_Witness ==
  \E t, u \in Workers :
    /\ t # u
    /\ AtStart(t)
    /\ tl_call[t].n = 2
    /\ tl_call[t].previous = 2
    /\ tl_call[t].supersampling = 1
    /\ tl_pc[u] = "loop" /\ tl_k[u] = 3
    /\ tl_call[u].pixel = tl_call[t].pixel

====
